---- MODULE Spec2Model ----
(***************************************************************************)
(* Video recommender: the scraper facade's fetch with retry, backoff and   *)
(* user-agent fallback (video_recommender/scrapers.py), the aggregation    *)
(* over sites and the command line run (cli.py), and the TF-IDF profile    *)
(* builder and ranker (video_recommender_main.py).                         *)
(***************************************************************************)
EXTENDS Integers, Sequences, FiniteSets, TLC

VARIABLES
    \* ---- Crawl4aiVideoScraper: one facade instance and the fetch call in flight
    settings,        \* self.settings
    site_pipelines,  \* self._site_pipelines: the registry keys, in dict order
    fpc,             \* position of fetch: "idle", "crawl", "sleep", "done"
    call,            \* arguments of the fetch call in flight: [site, max_results]
    flow_def,        \* the pipeline dict built by fetch (None before it is built)
    attempt,         \* loop variable of _run_flow
    last_exception,  \* local of _run_flow
    log,             \* one entry per pipeline attempt of this call: [ua, out, err]
    sleeps,          \* the backoff sleeps of this call: [after, delay]
    flow_outcome,    \* how _run_flow ended: None, [kind "raised"], [kind "returned"]
    fetch_outcome,   \* how fetch ended: None, [kind "raised"], [kind "returned"]
    ncalls,          \* fetch calls made on this instance so far
    pages,           \* the video lists the scraped site can serve during this run
    \* ---- profile building and ranking (video_recommender_main.py)
    rpc,             \* position of the caller: "start", "built", "failed", "ready"
    bookmarks,       \* the bookmarks frame
    vectorizer,      \* the TfidfVectorizer build_user_profile returned
    user_profile,    \* the profile vector build_user_profile returned
    build_outcome,   \* how build_user_profile ended
    candidates,      \* the caller's candidates frame
    recs,            \* the recommend_videos calls so far: [top_n, before, outcome]
    \* ---- cli.main and scrape_all_sites
    mpc,             \* position of main: "start", "prompt", "scraping", "scraped", "exited"
    args,            \* the parsed command line: [query, no_fallback, max_recommendations]
    file,            \* the bookmarks file: [exists, records]
    scrapers,        \* the list `scrapers` of scrape_all_sites: site names
    site_log,        \* what each scraper call did, in call order: [site, max_results, kind, frame]
    scrape_outcome,  \* how scrape_all_sites ended
    query,           \* the search query
    printed,         \* what main printed: "nothing", "no recommendations", "list"
    exit_code,       \* "none" while main runs, then "0" or "1"
    interrupted,     \* "no", or the wait of main in which the user interrupt arrived
    \* ---- crawl4ai_settings.get_crawl4ai_config
    env,             \* os.environ, the CRAWL4AI_* variables: unset or a string
    config_outcome   \* how get_crawl4ai_config ended

fetchVars == <<settings, site_pipelines, fpc, call, flow_def, attempt,
               last_exception, log, sleeps, flow_outcome, fetch_outcome, ncalls,
               pages>>

rankVars == <<rpc, bookmarks, vectorizer, user_profile, build_outcome, candidates, recs>>

cliVars == <<mpc, args, file, scrapers, site_log, scrape_outcome, query, printed, exit_code,
             interrupted>>

configVars == <<env, config_outcome>>

vars == <<fetchVars, rankVars, cliVars, configVars>>

\* what the steps of fetch leave alone
NotFetch == <<rankVars, cliVars, configVars>>

\* what the steps of profile building and ranking leave alone
NotRank == <<fetchVars, cliVars, configVars>>

None == "None"

----------------------------------------------------------------------------
(* Bounds of the model *)

MaxRetryTimes == 3   \* largest retry_times a settings object holds
MaxVideos == 2       \* longest video list one pipeline attempt returns
MaxResults == 2      \* largest max_results argument of fetch
MaxCalls == 2        \* fetch calls made on one facade instance
MaxBookmarks == 2    \* most bookmarks in the bookmarks frame
MaxCandidates == 3   \* most candidates in the candidates frame
MaxTopN == 3         \* largest top_n argument of recommend_videos
MaxRankCalls == 2    \* recommend_videos calls of one run
MaxSites == 2        \* most entries of the scrapers list
MaxSiteRows == 3     \* most rows one scraper call returns
MaxOverrides == 2    \* most CRAWL4AI_* variables set in the environment
MaxAnchors == 2      \* most <a> elements in a bookmark file
MaxPageLen == 3      \* longest video list of a page with repeated urls
MaxBatch == 2        \* most candidates of a frame when several frames are ranked

----------------------------------------------------------------------------
(* Exact rationals for the delays (Python floats): [n, d] with d > 0 *)

R(n, d) == [n |-> n, d |-> d]
RMul(a, b) == R(a.n * b.n, a.d * b.d)
RAdd(a, b) == R(a.n * b.d + b.n * a.d, a.d * b.d)
RLe(a, b) == a.n * b.d <= b.n * a.d
REq(a, b) == a.n * b.d = b.n * a.d
RMin(a, b) == IF RLe(a, b) THEN a ELSE b
RECURSIVE RPow(_, _)
RPow(a, k) == IF k = 0 THEN R(1, 1) ELSE RMul(a, RPow(a, k - 1))

----------------------------------------------------------------------------
(* Strings as sequences of characters, so that str.lower() is computed *)

UpperToLower ==
    [A |-> "a", B |-> "b", C |-> "c", D |-> "d", E |-> "e", F |-> "f", G |-> "g",
     H |-> "h", I |-> "i", J |-> "j", K |-> "k", L |-> "l", M |-> "m", N |-> "n",
     O |-> "o", P |-> "p", Q |-> "q", R |-> "r", S |-> "s", T |-> "t", U |-> "u",
     V |-> "v", W |-> "w", X |-> "x", Y |-> "y", Z |-> "z"]

LowerChar(c) == IF c \in DOMAIN UpperToLower THEN UpperToLower[c] ELSE c

\* str.lower()
Lower(s) == [i \in 1..Len(s) |-> LowerChar(s[i])]

\* The keys of SITE_FLOWS / self._site_pipelines, in insertion order
SiteKeys ==
    << <<"e","p","o","r","n","e","r">>,
       <<"h","q","p","o","r","n","e","r">>,
       <<"p","o","r","n","t","r","e","x">>,
       <<"x","n","x","x">>,
       <<"m","o","t","h","e","r","l","e","s","s">> >>

SeqRange(s) == {s[i] : i \in 1..Len(s)}

\* The site arguments fetch is called with
SiteInputs ==
    { <<"e","p","o","r","n","e","r">>,
      <<"E","p","o","r","n","e","r">>,
      <<"X","N","X","X">>,
      <<"x","n","x","x"," ">>,
      <<"v","i","m","e","o">> }

----------------------------------------------------------------------------
(* Settings objects (crawl4ai_settings.CRAWL4AI_DEFAULTS and custom dicts) *)

DefaultUserAgent == "VideoRecommender/1.0"
DefaultFallbackUserAgents == <<"Chrome/Windows", "Chrome/Mac", "Chrome/Linux">>

RetryTimesValues == (0 - 1)..MaxRetryTimes
Strategies == {"exponential", "linear"}
Multipliers == {R(1, 2), R(3, 2), R(2, 1)}
BaseDelays == {R(0, 1), R(1, 1)}
MaxDelays == {R(3, 2), R(5, 1)}

\* CRAWL4AI_DEFAULTS
DefaultSettings ==
    [user_agent |-> DefaultUserAgent,
     retry_times |-> 3,
     download_delay |-> R(1, 1),
     fallback_enabled |-> TRUE,
     retry_delay_multiplier |-> R(2, 1),
     max_retry_delay |-> R(10, 1),
     backoff_strategy |-> "exponential",
     enable_fallback_user_agents |-> TRUE,
     fallback_user_agents |-> DefaultFallbackUserAgents]

\* dict.get(key, default)
Get(d, key, default) == IF key \in DOMAIN d THEN d[key] ELSE default

\* The settings objects a facade is constructed with: retry and backoff keys
\* vary, the user-agent keys are those of CRAWL4AI_DEFAULTS
BackoffSettings ==
    { [user_agent |-> DefaultUserAgent,
       retry_times |-> rt,
       download_delay |-> base,
       fallback_enabled |-> TRUE,
       retry_delay_multiplier |-> mult,
       max_retry_delay |-> maxd,
       backoff_strategy |-> strat,
       enable_fallback_user_agents |-> TRUE,
       fallback_user_agents |-> DefaultFallbackUserAgents] :
         rt \in RetryTimesValues, strat \in Strategies, mult \in Multipliers,
         base \in BaseDelays, maxd \in MaxDelays }

----------------------------------------------------------------------------
(* What one pipeline attempt (_simulate_crawl4ai_flow) can do *)

Errors == {"ConnectionError", "TimeoutError"}

\* scraped items: dicts that may lack a key
VideoItems ==
    { [title |-> "t1", url |-> "u1"],
      [title |-> "t2", url |-> "u1"],
      [title |-> "t3", url |-> "u2", description |-> "d3"],
      [url |-> "u3"],
      [title |-> "t5"] }

RECURSIVE SeqsUpTo(_, _)
SeqsUpTo(S, n) ==
    IF n = 0 THEN {<<>>}
    ELSE LET shorter == SeqsUpTo(S, n - 1)
         IN  shorter \cup {Append(s, x) : s \in {t \in shorter : Len(t) = n - 1}, x \in S}

\* the results a pipeline attempt can return: None, or a dict with 'videos'
NoResults == [kind |-> "None"]
Results(vs) == [kind |-> "dict", videos |-> vs]

\* mutant: any dict counts as a success, also one without videos
HasVideos_AnyDict(results) == results.kind = "dict"

\* Python truthiness of `results and results.get('videos')`
HasVideos(results) == results.kind = "dict" /\ Len(results.videos) > 0

\* the video lists of every length up to MaxVideos
AllPages == SeqsUpTo(VideoItems, MaxVideos)

\* video lists longer than max_results, with urls that repeat
LongPages == SeqsUpTo(VideoItems \ {[url |-> "u3"]}, MaxPageLen)

\* the video lists of a site that serves the same two items on every page
PlainPages == {<<>>, <<[title |-> "t1", url |-> "u1"]>>,
               <<[title |-> "t1", url |-> "u1"], [title |-> "t3", url |-> "u2", description |-> "d3"]>>}

----------------------------------------------------------------------------
(* Crawl4aiVideoScraper._calculate_retry_delay *)

\* mutant: the exponent and the factor are applied the wrong way round, so
\* the delay shrinks with the attempt number
CalculateRetryDelay_Shrinking(a, base_delay, strategy, multiplier, max_delay) ==
    LET inverse == R(multiplier.d, multiplier.n)
        delay == IF strategy = "exponential"
                 THEN RMul(base_delay, RPow(inverse, a))
                 ELSE RMul(base_delay, RPow(inverse, a))
    IN  RMin(delay, max_delay)

\* mutant: the delay is not capped at max_delay
CalculateRetryDelay_Uncapped(a, base_delay, strategy, multiplier, max_delay) ==
    IF strategy = "exponential"
    THEN RMul(base_delay, RPow(multiplier, a))
    ELSE RAdd(base_delay, RMul(RMul(base_delay, multiplier), R(a, 1)))

CalculateRetryDelay(a, base_delay, strategy, multiplier, max_delay) ==
    LET delay == IF strategy = "exponential"
                 THEN RMul(base_delay, RPow(multiplier, a))
                 ELSE RAdd(base_delay, RMul(RMul(base_delay, multiplier), R(a, 1)))
    IN  RMin(delay, max_delay)

\* mutant: the rotation is indexed by the attempt, not by attempt - 1
UserAgentFor_OffByOne(a) ==
    LET fallback_enabled == Get(settings, "fallback_enabled", TRUE)
        fallback_user_agents == Get(settings, "fallback_user_agents", <<>>)
        current_user_agent == Get(settings, "user_agent", None)
    IN  IF fallback_enabled /\ a > 0 /\ Len(fallback_user_agents) > 0
           /\ Get(settings, "enable_fallback_user_agents", TRUE)
        THEN fallback_user_agents[(a % Len(fallback_user_agents)) + 1]
        ELSE current_user_agent

(* The user agent _run_flow puts into flow_def for attempt a *)
UserAgentFor(a) ==
    LET fallback_enabled == Get(settings, "fallback_enabled", TRUE)
        fallback_user_agents == Get(settings, "fallback_user_agents", <<>>)
        current_user_agent == Get(settings, "user_agent", None)
    IN  IF fallback_enabled /\ a > 0 /\ Len(fallback_user_agents) > 0
           /\ Get(settings, "enable_fallback_user_agents", TRUE)
        THEN fallback_user_agents[((a - 1) % Len(fallback_user_agents)) + 1]
        ELSE current_user_agent

----------------------------------------------------------------------------
(* DataFrames: the column names and the rows *)

FrameColumns == <<"title", "url", "source", "description">>
DataFrame(cols, rows) == [columns |-> cols, rows |-> rows]
EmptyFrame == DataFrame(FrameColumns, <<>>)

\* mutant: an item that lacks a title or a url is left out
ConvertToDataframe_Dropping(results, source) ==
    LET videos == SelectSeq(results.videos,
                      LAMBDA v : "title" \in DOMAIN v /\ "url" \in DOMAIN v)
    IN  DataFrame(FrameColumns,
            [i \in 1..Len(videos) |->
                [title |-> videos[i].title,
                 url |-> videos[i].url,
                 source |-> source,
                 description |-> Get(videos[i], "description", "")]])

\* Crawl4aiVideoScraper._convert_to_dataframe
ConvertToDataframe(results, source) ==
    LET videos == results.videos
    IN  IF Len(videos) = 0 THEN EmptyFrame
        ELSE DataFrame(FrameColumns,
                 [i \in 1..Len(videos) |->
                     [title |-> Get(videos[i], "title", "No Title"),
                      url |-> Get(videos[i], "url", ""),
                      source |-> source,
                      description |-> Get(videos[i], "description", "")]])

\* df.head(n) for n >= 0
DfHead(df, n) == DataFrame(df.columns, SubSeq(df.rows, 1, IF n < Len(df.rows) THEN n ELSE Len(df.rows)))

\* df.drop_duplicates(subset=['url'], keep='first')
RECURSIVE DropDupRows(_, _)
DropDupRows(rows, seen) ==
    IF rows = <<>> THEN <<>>
    ELSE IF rows[1].url \in seen
         THEN DropDupRows(Tail(rows), seen)
         ELSE <<rows[1]>> \o DropDupRows(Tail(rows), seen \cup {rows[1].url})

DropDuplicatesByUrl(df) == DataFrame(df.columns, DropDupRows(df.rows, {}))

\* mutant: duplicates are removed before the frame is cut to max_results
FetchPostprocess_DedupFirst(results, source, max_results) ==
    LET df == DropDuplicatesByUrl(ConvertToDataframe(results, source))
    IN  IF Len(df.rows) > max_results THEN DfHead(df, max_results) ELSE df

\* the body of fetch's try block after _run_flow returned `results`
FetchPostprocess(results, source, max_results) ==
    LET df == ConvertToDataframe(results, source)
        cut == IF Len(df.rows) > max_results THEN DfHead(df, max_results) ELSE df
    IN  DropDuplicatesByUrl(cut)

\* an entry of 'videos' that is not a dict but a bare string: it has no .get
BareString(s) == [str |-> s]
IsDict(video) == "str" \notin DOMAIN video

\* _convert_to_dataframe calls video.get on every entry: any entry that is
\* not a dict makes it raise AttributeError
Normalizable(results) ==
    \A i \in 1..Len(results.videos) : IsDict(results.videos[i])

\* video lists in which an entry is not a dict
MalformedPages ==
    PlainPages \cup {<<BareString("t1")>>,
                     <<[title |-> "t1", url |-> "u1"], BareString("t3")>>}

\* mutant: the try block of fetch has no except branch, the AttributeError of
\* _convert_to_dataframe reaches the caller
FetchTry_Unguarded(results, source, max_results) ==
    IF Normalizable(results)
    THEN [kind |-> "returned", value |-> FetchPostprocess(results, source, max_results)]
    ELSE [kind |-> "raised", error |-> "AttributeError"]

\* the try block of fetch after _run_flow returned `results`: the frame, or
\* the empty frame of the except branch when the conversion raised
FetchTry(results, source, max_results) ==
    IF Normalizable(results)
    THEN [kind |-> "returned", value |-> FetchPostprocess(results, source, max_results)]
    ELSE [kind |-> "returned", value |-> EmptyFrame]

----------------------------------------------------------------------------
(* Crawl4aiVideoScraper.fetch and _run_flow, one step per await *)

NoOutcome == [kind |-> "none"]
Raised(e) == [kind |-> "raised", error |-> e]
Returned(v) == [kind |-> "returned", value |-> v]

NoFlowDef == [built |-> FALSE]

\* the ValueError of fetch; its message joins the registry keys
UnsupportedSiteError(s, registry) ==
    [type |-> "ValueError", site |-> s, supported |-> registry]

AllAttemptsFailed == "All retry attempts failed with no results"

\* mutant: the site is looked up as given, without lower()
IsSupported_CaseSensitive(s) == s \in SeqRange(site_pipelines)

\* `site.lower() not in self._site_pipelines`
IsSupported(s) == Lower(s) \in SeqRange(site_pipelines)

\* _get_<site>_pipeline(query, max_results): the flow definition dict
PipelineFunc(key, max_results) ==
    [built |-> TRUE, site |-> key, max_results |-> max_results, user_agent |-> None]

\* closes the last log entry with what the attempt did
CloseAttempt(lg, out, err, res) ==
    [lg EXCEPT ![Len(lg)] = [@ EXCEPT !.out = out, !.err = err, !.res = res]]

\* The head of `for attempt in range(retry_times)` for loop index n: either the
\* next attempt is started (up to the await of the pipeline), or the loop is
\* over, _run_flow raises and fetch's except branch returns the empty frame.
LoopFrom(n, lastExc, lg, fd) ==
    IF n < Get(settings, "retry_times", 3)
    THEN /\ fpc' = "crawl"
         /\ attempt' = n
         /\ last_exception' = lastExc
         /\ flow_def' = [fd EXCEPT !.user_agent = UserAgentFor(n)]
         /\ log' = Append(lg, [ua |-> UserAgentFor(n), out |-> "pending",
                               err |-> None, res |-> NoResults])
         /\ flow_outcome' = NoOutcome
         /\ fetch_outcome' = NoOutcome
    ELSE /\ fpc' = "done"
         /\ attempt' = n
         /\ last_exception' = lastExc
         /\ flow_def' = fd
         /\ log' = lg
         /\ flow_outcome' = Raised(IF lastExc # None THEN lastExc ELSE AllAttemptsFailed)
         /\ fetch_outcome' = Returned(EmptyFrame)

\* mutant: the attempt counter lives on the facade and is not reset per call
FetchCall_SharedCounter(s, m) ==
    /\ fpc = "idle"
    /\ ncalls < MaxCalls
    /\ call' = [site |-> s, max_results |-> m]
    /\ sleeps' = <<>>
    /\ IF ~IsSupported(s)
       THEN /\ fpc' = "done"
            /\ fetch_outcome' = Raised(UnsupportedSiteError(s, site_pipelines))
            /\ UNCHANGED <<flow_def, attempt, last_exception, log, flow_outcome>>
       ELSE LoopFrom(ncalls, None, <<>>, PipelineFunc(Lower(s), m))
    /\ UNCHANGED <<settings, site_pipelines, ncalls, pages>>
    /\ UNCHANGED NotFetch

\* fetch(site, query, max_results) up to its first await
FetchCall(s, m) ==
    /\ fpc = "idle"
    /\ ncalls < MaxCalls
    /\ call' = [site |-> s, max_results |-> m]
    /\ sleeps' = <<>>
    /\ IF ~IsSupported(s)
       THEN /\ fpc' = "done"
            /\ fetch_outcome' = Raised(UnsupportedSiteError(s, site_pipelines))
            /\ UNCHANGED <<flow_def, attempt, last_exception, log, flow_outcome>>
       ELSE LoopFrom(0, None, <<>>, PipelineFunc(Lower(s), m))
    /\ UNCHANGED <<settings, site_pipelines, ncalls, pages>>
    /\ UNCHANGED NotFetch

\* mutant: an attempt without videos forgets the exception of earlier attempts
PipelineReturns_Forgetting(results) ==
    /\ fpc = "crawl"
    /\ IF HasVideos(results)
       THEN /\ fpc' = "done"
            /\ log' = CloseAttempt(log, "ok", None, results)
            /\ flow_outcome' = Returned(results)
            /\ fetch_outcome' =
                   FetchTry(results, Lower(call.site), call.max_results)
            /\ UNCHANGED <<attempt, last_exception, flow_def>>
       ELSE LoopFrom(attempt + 1, None,
                     CloseAttempt(log, "empty", None, results), flow_def)
    /\ UNCHANGED <<settings, site_pipelines, call, sleeps, ncalls, pages>>
    /\ UNCHANGED NotFetch

\* the awaited pipeline returns `results`
PipelineReturns(results) ==
    /\ fpc = "crawl"
    /\ IF HasVideos(results)
       THEN /\ fpc' = "done"
            /\ log' = CloseAttempt(log, "ok", None, results)
            /\ flow_outcome' = Returned(results)
            /\ fetch_outcome' =
                   FetchTry(results, Lower(call.site), call.max_results)
            /\ UNCHANGED <<attempt, last_exception, flow_def>>
       ELSE LoopFrom(attempt + 1, last_exception,
                     CloseAttempt(log, "empty", None, results), flow_def)
    /\ UNCHANGED <<settings, site_pipelines, call, sleeps, ncalls, pages>>
    /\ UNCHANGED NotFetch

\* mutant: the except branch keeps the first exception instead of the latest
PipelineRaises_KeepsFirst(e) ==
    LET kept == IF last_exception = None THEN e ELSE last_exception
    IN
    /\ fpc = "crawl"
    /\ IF attempt < Get(settings, "retry_times", 3) - 1
       THEN /\ fpc' = "sleep"
            /\ last_exception' = kept
            /\ log' = CloseAttempt(log, "raised", e, NoResults)
            /\ sleeps' = Append(sleeps,
                   [after |-> attempt,
                    delay |-> CalculateRetryDelay(attempt,
                                  Get(settings, "download_delay", R(1, 1)),
                                  Get(settings, "backoff_strategy", "exponential"),
                                  Get(settings, "retry_delay_multiplier", R(2, 1)),
                                  Get(settings, "max_retry_delay", R(10, 1)))])
            /\ UNCHANGED <<attempt, flow_def, flow_outcome, fetch_outcome>>
       ELSE /\ LoopFrom(attempt + 1, kept, CloseAttempt(log, "raised", e, NoResults), flow_def)
            /\ UNCHANGED sleeps
    /\ UNCHANGED <<settings, site_pipelines, call, ncalls, pages>>
    /\ UNCHANGED NotFetch

\* the awaited pipeline raises e
PipelineRaises(e) ==
    /\ fpc = "crawl"
    /\ IF attempt < Get(settings, "retry_times", 3) - 1
       THEN /\ fpc' = "sleep"
            /\ last_exception' = e
            /\ log' = CloseAttempt(log, "raised", e, NoResults)
            /\ sleeps' = Append(sleeps,
                   [after |-> attempt,
                    delay |-> CalculateRetryDelay(attempt,
                                  Get(settings, "download_delay", R(1, 1)),
                                  Get(settings, "backoff_strategy", "exponential"),
                                  Get(settings, "retry_delay_multiplier", R(2, 1)),
                                  Get(settings, "max_retry_delay", R(10, 1)))])
            /\ UNCHANGED <<attempt, flow_def, flow_outcome, fetch_outcome>>
       ELSE /\ LoopFrom(attempt + 1, e, CloseAttempt(log, "raised", e, NoResults), flow_def)
            /\ UNCHANGED sleeps
    /\ UNCHANGED <<settings, site_pipelines, call, ncalls, pages>>
    /\ UNCHANGED NotFetch

\* mutant: after the sleep the same loop index is tried again
SleepReturns_SameAttempt ==
    /\ fpc = "sleep"
    /\ LoopFrom(attempt, last_exception, log, flow_def)
    /\ UNCHANGED <<settings, site_pipelines, call, sleeps, ncalls, pages>>
    /\ UNCHANGED NotFetch

\* the awaited asyncio.sleep(delay) returns
SleepReturns ==
    /\ fpc = "sleep"
    /\ LoopFrom(attempt + 1, last_exception, log, flow_def)
    /\ UNCHANGED <<settings, site_pipelines, call, sleeps, ncalls, pages>>
    /\ UNCHANGED NotFetch

\* the caller has the outcome of fetch; the locals of the call are gone
FetchReturn ==
    /\ fpc = "done"
    /\ fpc' = "idle"
    /\ ncalls' = ncalls + 1
    /\ call' = [site |-> <<>>, max_results |-> 0]
    /\ flow_def' = NoFlowDef
    /\ attempt' = 0
    /\ last_exception' = None
    /\ log' = <<>>
    /\ sleeps' = <<>>
    /\ flow_outcome' = NoOutcome
    /\ fetch_outcome' = NoOutcome
    /\ UNCHANGED <<settings, site_pipelines, pages>>
    /\ UNCHANGED NotFetch

\* _simulate_crawl4ai_flow slices flow_def.get('user_agent', 'default'): with
\* the user agent None that is a TypeError, raised before any crawling
UserAgentTypeError == "TypeError"

\* what one awaited pipeline attempt does, given the user agent it was handed
PipelineStep ==
    \/ /\ fpc = "crawl" /\ flow_def.user_agent # None
       /\ \/ \E vs \in pages : PipelineReturns(Results(vs))
          \/ PipelineReturns(NoResults)
          \/ \E e \in Errors : PipelineRaises(e)
    \/ /\ fpc = "crawl" /\ flow_def.user_agent = None
       /\ PipelineRaises(UserAgentTypeError)

\* a settings dict given to the constructor may lack any key
NoKeys == [k \in {} |-> None]
ExampleRetryTimes == 4
ShortFallbackUserAgents == <<"Safari/Mac", "Firefox/Linux">>

\* settings objects that differ in the user-agent keys, as in the fallback
\* demonstration of example_usage.py
UserAgentSettings ==
    { ua @@ fe @@ en @@ fl @@ [retry_times |-> ExampleRetryTimes] :
        ua \in {NoKeys, [user_agent |-> DefaultUserAgent]},
        fe \in {NoKeys, [fallback_enabled |-> TRUE], [fallback_enabled |-> FALSE]},
        en \in {NoKeys, [enable_fallback_user_agents |-> TRUE],
                [enable_fallback_user_agents |-> FALSE]},
        fl \in {NoKeys, [fallback_user_agents |-> <<>>],
                [fallback_user_agents |-> ShortFallbackUserAgents],
                [fallback_user_agents |-> DefaultFallbackUserAgents]} }

\* Crawl4aiVideoScraper.__init__ with a settings object, before any call
FacadeInit(settingsSet, pageSet) ==
    /\ settings \in settingsSet
    /\ site_pipelines = SiteKeys
    /\ fpc = "idle"
    /\ call = [site |-> <<>>, max_results |-> 0]
    /\ flow_def = NoFlowDef
    /\ attempt = 0
    /\ last_exception = None
    /\ log = <<>>
    /\ sleeps = <<>>
    /\ flow_outcome = NoOutcome
    /\ fetch_outcome = NoOutcome
    /\ ncalls = 0
    /\ pages = pageSet

----------------------------------------------------------------------------
(* Text cells of a DataFrame column: a str (its characters), NaN, or an int *)

Str(chars) == [t |-> "str", s |-> chars]
NaN == [t |-> "nan"]
Num(v) == [t |-> "int", v |-> v]

LowerLetters == {UpperToLower[c] : c \in DOMAIN UpperToLower}
Digits == {"0", "1", "2", "3", "4", "5", "6", "7", "8", "9"}

\* the characters the regular expression class \w matches
WordChars == LowerLetters \cup DOMAIN UpperToLower \cup Digits \cup {"_"}

\* re.findall(r"(?u)\b\w\w+\b", doc): the maximal runs of two or more word
\* characters, in order
Tokenize(doc) ==
    LET IsWord(i) == doc[i] \in WordChars
        \* where a run of word characters starts, and where that run ends
        starts == {a \in 1..Len(doc) : IsWord(a) /\ (a = 1 \/ ~IsWord(a - 1))}
        EndOf(a) == CHOOSE b \in a..Len(doc) :
                        /\ \A k \in a..b : IsWord(k)
                        /\ b = Len(doc) \/ ~IsWord(b + 1)
        matches == {a \in starts : EndOf(a) - a + 1 >= 2}
        Nth(n) == CHOOSE a \in matches : Cardinality({c \in matches : c < a}) = n - 1
    IN  [n \in 1..Cardinality(matches) |-> SubSeq(doc, Nth(n), EndOf(Nth(n)))]

\* the words of sklearn's ENGLISH_STOP_WORDS that the texts of the model use
EnglishStopWords ==
    { <<"t","h","e">>,
      <<"n","o">>,
      <<"t","o">>,
      <<"w","i","t","h">>,
      <<"h","o","w">>,
      <<"a","n","d">>,
      <<"o","f">>,
      <<"i","n">> }

\* TfidfVectorizer(stop_words="english").build_analyzer(): lower-case, tokenize,
\* drop the stop words
Analyze(doc) ==
    LET toks == Tokenize(Lower(doc))
        Keep(w) == w \notin EnglishStopWords
    IN  SelectSeq(toks, Keep)

\* occurrences of term in a token sequence
TermCount(term, toks) == Cardinality({i \in 1..Len(toks) : toks[i] = term})

RECURSIVE SumOver(_, _)
SumOver(S, f) ==
    IF S = {} THEN 0
    ELSE LET x == CHOOSE y \in S : TRUE IN f[x] + SumOver(S \ {x}, f)

RECURSIVE SqrtSearch(_, _, _)
SqrtSearch(x, lo, hi) ==
    IF lo >= hi THEN lo
    ELSE LET mid == (lo + hi + 1) \div 2
         IN  IF mid * mid <= x THEN SqrtSearch(x, mid, hi) ELSE SqrtSearch(x, lo, mid - 1)

\* floor of the square root
ISqrt(x) == SqrtSearch(x, 0, 46340)

\* weights and scores are fixed-point numbers: thousandths
Milli == 1000

\* 1000 * ln(k) for k = 1..8 (numpy.log)
LnMilli == <<0, 693, 1099, 1386, 1609, 1792, 1946, 2079>>

\* L2 norm of a vector over the vocabulary (sklearn.preprocessing.normalize)
Norm(v) == ISqrt(SumOver(DOMAIN v, [t \in DOMAIN v |-> v[t] * v[t]]))

\* v / |v|, a zero vector stays zero
Normalize(v) ==
    LET n == Norm(v)
    IN  [t \in DOMAIN v |-> IF n = 0 THEN 0 ELSE (v[t] * Milli) \div n]

----------------------------------------------------------------------------
(* TfidfVectorizer and cosine_similarity, in thousandths *)

NoVectorizer == [fitted |-> FALSE]
NoProfile == [present |-> FALSE]
Profile(v) == [present |-> TRUE, vector |-> v]

\* the terms of a set of documents (str cells)
VocabularyOf(docs) ==
    UNION {SeqRange(Analyze(docs[i].s)) : i \in 1..Len(docs)}

\* idf of smooth_idf=True: ln((1 + n) / (1 + df)) + 1
Idf(n, df) == LnMilli[1 + n] - LnMilli[1 + df] + Milli

\* TfidfVectorizer.fit on str documents with a non-empty vocabulary
Fit(docs) ==
    LET vocab == VocabularyOf(docs)
        analyzed == [i \in 1..Len(docs) |-> Analyze(docs[i].s)]
        Df(t) == Cardinality({i \in 1..Len(docs) : TermCount(t, analyzed[i]) > 0})
    IN  [fitted |-> TRUE,
         vocabulary |-> vocab,
         idf |-> [t \in vocab |-> Idf(Len(docs), Df(t))]]

\* mutant: terms outside the document get a smoothing count of one
TransformDoc_Smoothed(vec, doc) ==
    LET toks == Analyze(doc.s)
    IN  Normalize([t \in vec.vocabulary |-> (TermCount(t, toks) + 1) * vec.idf[t]])

\* TfidfVectorizer.transform of one str document: tf * idf, L2-normalised;
\* terms outside the vocabulary are ignored
TransformDoc(vec, doc) ==
    LET toks == Analyze(doc.s)
    IN  Normalize([t \in vec.vocabulary |-> TermCount(t, toks) * vec.idf[t]])

\* np.asarray(tfidf_matrix.mean(axis=0)): the element-wise mean of the rows
MeanVector(vec, docs) ==
    LET matrix == [i \in 1..Len(docs) |-> TransformDoc(vec, docs[i])]
    IN  [t \in vec.vocabulary |->
            SumOver(1..Len(docs), [i \in 1..Len(docs) |-> matrix[i][t]]) \div Len(docs)]

\* mutant: the cosine distance, 1 - similarity
Cosine_Distance(x, y) ==
    LET xn == Normalize(x)
        yn == Normalize(y)
    IN  Milli - SumOver(DOMAIN x, [t \in DOMAIN x |-> xn[t] * yn[t]]) \div Milli

\* cosine_similarity of one row with the profile: both are normalised, a zero
\* vector stays zero, then the dot product
Cosine(x, y) ==
    LET xn == Normalize(x)
        yn == Normalize(y)
    IN  SumOver(DOMAIN x, [t \in DOMAIN x |-> xn[t] * yn[t]]) \div Milli

----------------------------------------------------------------------------
(* Frames of bookmark and candidate records; idx is the index label of a row *)

TextColumns == <<"title", "url", "source", "description">>
ScoredColumns == <<"title", "url", "source", "description", "relevance_score">>

\* pd.DataFrame(): no columns, no rows
BareFrame == DataFrame(<<>>, <<>>)

\* pd.DataFrame(records)
FrameOf(records) ==
    IF Len(records) = 0 THEN BareFrame
    ELSE DataFrame(TextColumns,
             [i \in 1..Len(records) |->
                 [idx |-> i - 1, title |-> records[i].title, url |-> records[i].url,
                  source |-> records[i].source, description |-> records[i].description]])

\* df.empty
IsEmpty(df) == Len(df.rows) = 0 \/ Len(df.columns) = 0

\* one row of `df["title"] + " " + df["url"]`: NaN where the title or the url
\* is missing, "TypeError" where an int meets a str
ConcatTitleUrl(row) ==
    IF row.title.t = "int" THEN "TypeError"
    ELSE IF row.title.t = "nan" THEN "nan"
    ELSE IF row.url.t = "int" THEN "TypeError"
    ELSE IF row.url.t = "nan" THEN "nan"
    ELSE "str"

TextOf(row) == Str(row.title.s \o <<" ">> \o row.url.s)

----------------------------------------------------------------------------
(* build_user_profile and recommend_videos (video_recommender_main.py) *)

EmptyVocabulary == "ValueError: empty vocabulary"
InvalidDocument == "ValueError: np.nan is an invalid document"
TypeError == "TypeError: unsupported operand type(s) for +"

\* build_user_profile(bookmarks): what it returns or raises
BuildUserProfile(bm) ==
    IF IsEmpty(bm)
    THEN [kind |-> "returned", vectorizer |-> NoVectorizer, profile |-> NoProfile]
    ELSE LET combined_text == [i \in 1..Len(bm.rows) |-> TextOf(bm.rows[i])]
         IN  IF VocabularyOf(combined_text) = {}
             THEN [kind |-> "raised", error |-> EmptyVocabulary,
                   vectorizer |-> NoVectorizer, profile |-> NoProfile]
             ELSE LET vec == Fit(combined_text)
                  IN  [kind |-> "returned", vectorizer |-> vec,
                       profile |-> Profile(MeanVector(vec, combined_text))]

\* the rows of df in descending score order, equal scores in their given order
RECURSIVE InsertByScore(_, _)
InsertByScore(sorted, row) ==
    IF sorted = <<>> THEN <<row>>
    ELSE IF sorted[1].relevance_score >= row.relevance_score
         THEN <<sorted[1]>> \o InsertByScore(Tail(sorted), row)
         ELSE <<row>> \o sorted

RECURSIVE SortByScore(_)
SortByScore(rows) ==
    IF rows = <<>> THEN <<>>
    ELSE InsertByScore(SortByScore(SubSeq(rows, 1, Len(rows) - 1)), rows[Len(rows)])

\* mutant: nsmallest instead of nlargest, the lowest scores first
NLargest_Smallest(df, n) ==
    IF n <= 0 THEN DataFrame(df.columns, <<>>)
    ELSE LET sorted == SortByScore(df.rows)
             m == IF n < Len(sorted) THEN n ELSE Len(sorted)
         IN  DataFrame(df.columns, [i \in 1..m |-> sorted[Len(sorted) + 1 - i]])

\* df.nlargest(n, "relevance_score"), keep='first'
NLargest(df, n) ==
    IF n <= 0 THEN DataFrame(df.columns, <<>>)
    ELSE LET sorted == SortByScore(df.rows)
         IN  DataFrame(df.columns, SubSeq(sorted, 1, IF n < Len(sorted) THEN n ELSE Len(sorted)))

\* mutant: the caller's frame is also sorted by the new column, in place
AssignScores_SortedInPlace(df, scores) ==
    DataFrame(ScoredColumns,
        SortByScore(
            [i \in 1..Len(df.rows) |->
                [idx |-> df.rows[i].idx, title |-> df.rows[i].title, url |-> df.rows[i].url,
                 source |-> df.rows[i].source, description |-> df.rows[i].description,
                 relevance_score |-> scores[i]]]))

\* mutant: the new scores are added to a score column that is already there
AssignScores_Accumulating(df, scores) ==
    DataFrame(ScoredColumns,
        [i \in 1..Len(df.rows) |->
            [idx |-> df.rows[i].idx, title |-> df.rows[i].title, url |-> df.rows[i].url,
             source |-> df.rows[i].source, description |-> df.rows[i].description,
             relevance_score |->
                 IF "relevance_score" \in DOMAIN df.rows[i]
                 THEN df.rows[i].relevance_score + scores[i] ELSE scores[i]]])

\* candidates["relevance_score"] = scores
AssignScores(df, scores) ==
    DataFrame(ScoredColumns,
        [i \in 1..Len(df.rows) |->
            [idx |-> df.rows[i].idx, title |-> df.rows[i].title, url |-> df.rows[i].url,
             source |-> df.rows[i].source, description |-> df.rows[i].description,
             relevance_score |-> scores[i]]])

\* recommend_videos(candidates, vectorizer, user_profile, top_n): what it
\* returns or raises, and the caller's candidates frame afterwards
RecommendVideos(cands, vec, prof, top_n) ==
    IF ~IsEmpty(cands) /\ vec.fitted /\ prof.present
    THEN LET kinds == {ConcatTitleUrl(cands.rows[i]) : i \in 1..Len(cands.rows)}
         IN  IF "TypeError" \in kinds
             THEN \* line 163 is outside the try block
                  [outcome |-> Raised(TypeError), candidates |-> cands]
             ELSE IF "nan" \in kinds
             THEN \* vectorizer.transform raises inside the try block
                  [outcome |-> Returned(BareFrame), candidates |-> cands]
             ELSE LET scores == [i \in 1..Len(cands.rows) |->
                                    Cosine(TransformDoc(vec, TextOf(cands.rows[i])),
                                           prof.vector)]
                      scored == AssignScores(cands, scores)
                  IN  [outcome |-> Returned(NLargest(scored, top_n)),
                       candidates |-> scored]
    ELSE [outcome |-> Returned(BareFrame), candidates |-> cands]


----------------------------------------------------------------------------
(* A run: build the profile from the bookmarks, then rank candidate frames *)

\* records the bookmark parser yields
BookmarkPool ==
    { [title |-> Str(<<"P","i"," ","P","i","c","o">>), url |-> Str(<<"x",".","i","o","/","p","i","c","o">>), source |-> "x.io", description |-> Str(<<>>)],
      [title |-> Str(<<"T","h","e"," ","C","a","t">>), url |-> Str(<<"c","a","t",".","t","v">>), source |-> "cat.tv", description |-> Str(<<>>)],
      [title |-> Str(<<"a">>), url |-> Str(<<"#">>), source |-> "#", description |-> Str(<<>>)] }

\* candidate records: well-formed ones, one with a missing title (NaN) and
\* one whose title is a number
CandidatePool ==
    { [title |-> Str(<<"P","i","c","o"," ","C","+","+">>), url |-> Str(<<"y",".","i","o","/","p","i","c","o">>), source |-> "y", description |-> Str(<<>>)],
      [title |-> Str(<<"P","I","C","O">>), url |-> Str(<<"y",".","i","o","/","P","i","c","o">>), source |-> "y", description |-> Str(<<>>)],
      [title |-> Str(<<"C","a","t">>), url |-> Str(<<"c","a","t",".","t","v","/","1">>), source |-> "cat", description |-> Str(<<>>)],
      [title |-> Str(<<"D","o","g">>), url |-> Str(<<"z",".","o","r","g">>), source |-> "z", description |-> Str(<<>>)],
      [title |-> NaN, url |-> Str(<<"y",".","i","o">>), source |-> "y", description |-> Str(<<>>)],
      [title |-> Num(7), url |-> Str(<<"y",".","i","o">>), source |-> "y", description |-> Str(<<>>)] }

WellFormed(df) ==
    \A i \in 1..Len(df.rows) : df.rows[i].title.t = "str" /\ df.rows[i].url.t = "str"

RankInit ==
    /\ rpc = "start"
    /\ bookmarks \in {FrameOf(b) : b \in SeqsUpTo(BookmarkPool, MaxBookmarks)}
    /\ vectorizer = NoVectorizer
    /\ user_profile = NoProfile
    /\ build_outcome = NoOutcome
    /\ candidates = BareFrame
    /\ recs = <<>>

\* the ranking variables while another part of the program is looked at
RankIdle ==
    /\ rpc = "off"
    /\ bookmarks = BareFrame
    /\ vectorizer = NoVectorizer
    /\ user_profile = NoProfile
    /\ build_outcome = NoOutcome
    /\ candidates = BareFrame
    /\ recs = <<>>

\* vectorizer, user_profile = build_user_profile(bookmarks)
BuildProfile ==
    /\ rpc = "start"
    /\ LET r == BuildUserProfile(bookmarks)
       IN  /\ build_outcome' = IF r.kind = "raised" THEN Raised(r.error) ELSE Returned("pair")
           /\ vectorizer' = r.vectorizer
           /\ user_profile' = r.profile
           /\ rpc' = IF r.kind = "raised" THEN "failed" ELSE "built"
    /\ UNCHANGED <<bookmarks, candidates, recs>>
    /\ UNCHANGED NotRank

\* the caller gets a candidates frame
ObtainCandidates(records) ==
    /\ rpc = "built"
    /\ candidates' = FrameOf(records)
    /\ rpc' = "ready"
    /\ UNCHANGED <<bookmarks, vectorizer, user_profile, build_outcome, recs>>
    /\ UNCHANGED NotRank

\* mutant: the vectorizer is fitted again, on the texts of the candidates
Recommend_Refitting(k) ==
    /\ rpc = "ready"
    /\ Len(recs) < MaxRankCalls
    /\ LET r == RecommendVideos(candidates, vectorizer, user_profile, k)
           texts == [i \in 1..Len(candidates.rows) |-> TextOf(candidates.rows[i])]
           refit == /\ ~IsEmpty(candidates) /\ WellFormed(candidates) /\ vectorizer.fitted
                    /\ VocabularyOf(texts) # {}
       IN  /\ recs' = Append(recs, [top_n |-> k, before |-> candidates, outcome |-> r.outcome])
           /\ candidates' = r.candidates
           /\ vectorizer' = IF refit THEN Fit(texts) ELSE vectorizer
    /\ UNCHANGED <<rpc, bookmarks, user_profile, build_outcome>>
    /\ UNCHANGED NotRank

\* recommend_videos(candidates, vectorizer, user_profile, top_n=k)
Recommend(k) ==
    /\ rpc = "ready"
    /\ Len(recs) < MaxRankCalls
    /\ LET r == RecommendVideos(candidates, vectorizer, user_profile, k)
       IN  /\ recs' = Append(recs, [top_n |-> k, before |-> candidates, outcome |-> r.outcome])
           /\ candidates' = r.candidates
    /\ UNCHANGED <<rpc, bookmarks, vectorizer, user_profile, build_outcome>>
    /\ UNCHANGED NotRank

\* When top_n >= len(candidates), nlargest sorts the whole score column with
\* sort_values(ascending=False), whose default sort (quicksort) leaves the
\* order of equal scores open; below that it selects with a stable sort.
\* The orders of rows that are descending in score:
DescendingOrders(rows) ==
    LET n == Len(rows)
        perms == {p \in [1..n -> 1..n] : \A i, j \in 1..n : i # j => p[i] # p[j]}
        sorted == {p \in perms :
                     \A i \in 1..(n - 1) :
                         rows[p[i]].relevance_score >= rows[p[i + 1]].relevance_score}
    IN  {[i \in 1..n |-> rows[p[i]]] : p \in sorted}

\* the frames df.nlargest(n, "relevance_score") can return
NLargestOutcomes(df, n) ==
    IF n <= 0 THEN {DataFrame(df.columns, <<>>)}
    ELSE IF n >= Len(df.rows)
    THEN {DataFrame(df.columns, rows) : rows \in DescendingOrders(df.rows)}
    ELSE {NLargest(df, n)}

\* recommend_videos(candidates, vectorizer, user_profile, top_n=k) with the
\* order of equal scores left to the sort
RecommendAnyTieOrder(k) ==
    /\ rpc = "ready"
    /\ Len(recs) < MaxRankCalls
    /\ LET r == RecommendVideos(candidates, vectorizer, user_profile, k)
           scored == r.outcome.kind = "returned" /\ r.outcome.value.columns = ScoredColumns
           outcomes == IF scored
                       THEN {Returned(out) : out \in NLargestOutcomes(r.candidates, k)}
                       ELSE {r.outcome}
       IN  /\ \E outcome \in outcomes :
                  recs' = Append(recs, [top_n |-> k, before |-> candidates,
                                        outcome |-> outcome])
           /\ candidates' = r.candidates
    /\ UNCHANGED <<rpc, bookmarks, vectorizer, user_profile, build_outcome>>
    /\ UNCHANGED NotRank

\* the caller passes another candidates frame to the next call
ObtainMoreCandidates(records) ==
    /\ rpc = "ready"
    /\ Len(recs) >= 1 /\ Len(recs) < MaxRankCalls
    /\ candidates' = FrameOf(records)
    /\ UNCHANGED <<rpc, bookmarks, vectorizer, user_profile, build_outcome, recs>>
    /\ UNCHANGED NotRank

----------------------------------------------------------------------------
(* The embedding variant: _encode_domains, build_user_embedding_profile and
   recommend_videos_with_embeddings. The sentence embeddings come from an
   external model and are left open; the domain features are computed. *)

UnknownDomain == <<"u","n","k","n","o","w","n">>

\* series.fillna("unknown") on the source column
SourcesOf(df) ==
    [i \in 1..Len(df.rows) |->
        IF df.rows[i].source.t = "nan" THEN UnknownDomain ELSE df.rows[i].source.s]

\* the domain strings of the model in sorted() order
DomainOrder == <<<<"a",".","c","o","m">>, <<"b",".","o","r","g">>, <<"c",".","n","e","t">>, <<"u","n","k","n","o","w","n">>>>

\* sorted(domains.unique())
SortedUnique(domains) == SelectSeq(DomainOrder, LAMBDA d : d \in SeqRange(domains))

NoMapping == [given |-> FALSE]
Mapping(m) == [given |-> TRUE, index |-> m]

\* {d: i for i, d in enumerate(unique)}
Enumerate(unique) ==
    [d \in SeqRange(unique) |-> (CHOOSE i \in 1..Len(unique) : unique[i] = d) - 1]

\* mutant: `if idx:` instead of `if idx is not None:`
EncodeDomains_TruthyIndex(domains, mapping) ==
    LET m == IF mapping.given THEN mapping.index ELSE Enumerate(SortedUnique(domains))
        width == Cardinality(DOMAIN m)
    IN  [vectors |-> [i \in 1..Len(domains) |->
                         [c \in 0..(width - 1) |->
                             IF domains[i] \in DOMAIN m /\ m[domains[i]] # 0
                                /\ m[domains[i]] = c
                             THEN 1 ELSE 0]],
         mapping |-> Mapping(m)]

\* _encode_domains(domains, mapping): the one-hot rows and the mapping
EncodeDomains(domains, mapping) ==
    LET m == IF mapping.given THEN mapping.index ELSE Enumerate(SortedUnique(domains))
        width == Cardinality(DOMAIN m)
    IN  [vectors |-> [i \in 1..Len(domains) |->
                         [c \in 0..(width - 1) |->
                             IF domains[i] \in DOMAIN m /\ m[domains[i]] = c
                             THEN 1 ELSE 0]],
         mapping |-> Mapping(m)]

\* the SentenceTransformer object
EmbeddingModel == [fitted |-> TRUE, model_name |-> "all-MiniLM-L6-v2"]

\* the profile: the mapping and the domain part of combined.mean(axis=0), in
\* thousandths
EmbeddingProfile(mapping, vectors) ==
    [present |-> TRUE,
     mapping |-> mapping,
     domain_mean |-> [c \in 0..(Cardinality(DOMAIN mapping.index) - 1) |->
                         (SumOver(1..Len(vectors), [i \in 1..Len(vectors) |-> vectors[i][c]])
                             * Milli) \div Len(vectors)]]

EmbedRecord(source) ==
    [title |-> Str(<<"v">>), url |-> Str(<<"u">>), source |-> source, description |-> Str(<<>>)]

EmbedBookmarkPool == {EmbedRecord(Str(<<"b",".","o","r","g">>)), EmbedRecord(Str(<<"a",".","c","o","m">>)), EmbedRecord(NaN)}
EmbedCandidatePool == EmbedBookmarkPool \cup {EmbedRecord(Str(<<"c",".","n","e","t">>))}

\* the scores cosine_similarity can give a row, the embeddings being open
EmbedScores == {0, 500}

EmbedInit ==
    /\ rpc = "start"
    /\ bookmarks \in {FrameOf(b) : b \in SeqsUpTo(EmbedBookmarkPool, MaxBookmarks)}
    /\ vectorizer = NoVectorizer
    /\ user_profile = NoProfile
    /\ build_outcome = NoOutcome
    /\ candidates = BareFrame
    /\ recs = <<>>

\* model, mapping, profile = build_user_embedding_profile(bookmarks)
BuildEmbeddingProfile ==
    /\ rpc = "start"
    /\ IF IsEmpty(bookmarks)
       THEN UNCHANGED <<vectorizer, user_profile>>
       ELSE LET enc == EncodeDomains(SourcesOf(bookmarks), NoMapping)
            IN  /\ vectorizer' = EmbeddingModel
                /\ user_profile' = EmbeddingProfile(enc.mapping, enc.vectors)
    /\ build_outcome' = Returned("triple")
    /\ rpc' = "built"
    /\ UNCHANGED <<bookmarks, candidates, recs>>
    /\ UNCHANGED NotRank

\* recommend_videos_with_embeddings(candidates, model, mapping, profile, k),
\* the cosine similarities being `scores`
RecommendWithEmbeddings(k, scores) ==
    /\ rpc = "ready"
    /\ Len(recs) < MaxRankCalls
    /\ IF IsEmpty(candidates) \/ ~vectorizer.fitted \/ ~user_profile.present
       THEN /\ recs' = Append(recs, [top_n |-> k, before |-> candidates, encoded |-> FALSE,
                                     outcome |-> Returned(BareFrame)])
            /\ UNCHANGED candidates
       ELSE LET enc == EncodeDomains(SourcesOf(candidates), user_profile.mapping)
                scored == AssignScores(candidates, scores)
            IN  /\ DOMAIN scores = 1..Len(candidates.rows)
                /\ recs' = Append(recs, [top_n |-> k, before |-> candidates, encoded |-> TRUE,
                                         domain_vecs |-> enc.vectors,
                                         mapping |-> enc.mapping,
                                         outcome |-> Returned(NLargest(scored, k))])
                /\ candidates' = scored
    /\ UNCHANGED <<rpc, bookmarks, vectorizer, user_profile, build_outcome>>
    /\ UNCHANGED NotRank

\* the records of the end-to-end example
PicoBookmark ==
    [title |-> Str(<<"R","a","s","p","b","e","r","r","y"," ","P","i"," ","P","i","c","o"," ","t","u","t","o","r","i","a","l">>),
     url |-> Str(<<"h","t","t","p","s",":","/","/","e","x","a","m","p","l","e",".","c","o","m","/","p","i","c","o">>),
     source |-> "example.com", description |-> Str(<<>>)]

PicoCandidate ==
    [title |-> Str(<<"P","i","c","o"," ","C","+","+"," ","P","r","o","j","e","c","t","s">>),
     url |-> Str(<<"h","t","t","p","s",":","/","/","r","a","s","p","b","e","r","r","y","p","i",".","c","o","m","/","c","p","p">>),
     source |-> "example", description |-> Str(<<>>)]

CatCandidate ==
    [title |-> Str(<<"C","a","t"," ","v","i","d","e","o","s">>),
     url |-> Str(<<"h","t","t","p","s",":","/","/","c","a","t","s",".","e","x","a","m","p","l","e","/","1">>),
     source |-> "example", description |-> Str(<<>>)]

\* the bookmark files of the example runs: the example bookmark, alone or with
\* another one
ExampleInit ==
    /\ rpc = "start"
    /\ bookmarks \in {FrameOf(b) :
            b \in SeqsUpTo({PicoBookmark, CHOOSE r \in BookmarkPool : r.source = "cat.tv"},
                           MaxBookmarks)}
    /\ vectorizer = NoVectorizer
    /\ user_profile = NoProfile
    /\ build_outcome = NoOutcome
    /\ candidates = BareFrame
    /\ recs = <<>>

----------------------------------------------------------------------------
(* cli.py: scrape_all_sites, get_fallback_data and main *)

\* get_fallback_data()
GetFallbackData ==
    FrameOf(<<
      [title |-> Str(<<"P","i","c","o"," ","C","+","+"," ","P","r","o","j","e","c","t","s">>),
       url |-> Str(<<"h","t","t","p","s",":","/","/","w","w","w",".","r","a","s","p","b","e","r","r","y","p","i",".","c","o","m","/","d","o","c","u","m","e","n","t","a","t","i","o","n","/","m","i","c","r","o","c","o","n","t","r","o","l","l","e","r","s","/","c","p","p",".","h","t","m","l">>),
       source |-> "example", description |-> Str(<<>>)],
      [title |-> Str(<<"T","h","e"," ","P","i","c","o"," ","C","+","+"," ","P","r","o","j","e","c","t","s">>),
       url |-> Str(<<"h","t","t","p","s",":","/","/","p","r","o","j","e","c","t","s",".","r","a","s","p","b","e","r","r","y","p","i",".","o","r","g","/","e","n","/","p","r","o","j","e","c","t","s","/","g","e","t","t","i","n","g","-","s","t","a","r","t","e","d","-","w","i","t","h","-","p","i","c","o">>),
       source |-> "example", description |-> Str(<<>>)],
      [title |-> Str(<<"A","d","v","a","n","c","e","d"," ","P","i","c","o"," ","C","+","+"," ","P","r","o","j","e","c","t","s">>),
       url |-> Str(<<"h","t","t","p","s",":","/","/","w","w","w",".","t","o","m","s","h","a","r","d","w","a","r","e",".","c","o","m","/","h","o","w","-","t","o","/","r","a","s","p","b","e","r","r","y","-","p","i","-","p","i","c","o","-","p","r","o","j","e","c","t","s">>),
       source |-> "example", description |-> Str(<<>>)] >>)

\* the names a `scrapers` list can hold: the entry of the source and two of
\* the entries that are commented out there
ScraperNames == {"Eporner", "XNXX", "HQPorner"}

\* the max_results of each entry of the scrapers list
ScraperLimit == [Eporner |-> 50, XNXX |-> 20, HQPorner |-> 20]

\* the lists of distinct scrapers with 1..MaxSites entries
ScraperLists ==
    {l \in SeqsUpTo(ScraperNames, MaxSites) :
        Len(l) >= 1 /\ \A i, j \in 1..Len(l) : i # j => l[i] # l[j]}

\* the records a site has for the query, best match first
SiteRecords(name) ==
    IF name = "Eporner" THEN
    << [title |-> Str(<<"P","i","c","o">>), url |-> Str(<<"e",".","i","o","/","1">>), source |-> "eporner", description |-> Str(<<>>)],
       [title |-> Str(<<"C","a","t">>), url |-> Str(<<"e",".","i","o","/","2">>), source |-> "eporner", description |-> Str(<<>>)],
       [title |-> Str(<<"D","o","g">>), url |-> Str(<<"e",".","i","o","/","3">>), source |-> "eporner", description |-> Str(<<>>)],
       [title |-> Str(<<"P","i">>), url |-> Str(<<"e",".","i","o","/","4">>), source |-> "eporner", description |-> Str(<<>>)] >>
    ELSE IF name = "XNXX" THEN
    << [title |-> Str(<<"P","i","c","o">>), url |-> Str(<<"x",".","t","v","/","1">>), source |-> "xnxx", description |-> Str(<<>>)],
       [title |-> Str(<<"C","a","t">>), url |-> Str(<<"x",".","t","v","/","2">>), source |-> "xnxx", description |-> Str(<<>>)],
       [title |-> Str(<<"D","o","g">>), url |-> Str(<<"x",".","t","v","/","3">>), source |-> "xnxx", description |-> Str(<<>>)],
       [title |-> Str(<<"P","i">>), url |-> Str(<<"x",".","t","v","/","4">>), source |-> "xnxx", description |-> Str(<<>>)] >>
    ELSE
    << [title |-> Str(<<"P","i","c","o">>), url |-> Str(<<"h",".","o","r","g","/","1">>), source |-> "hqporner", description |-> Str(<<>>)],
       [title |-> Str(<<"C","a","t">>), url |-> Str(<<"h",".","o","r","g","/","2">>), source |-> "hqporner", description |-> Str(<<>>)],
       [title |-> Str(<<"D","o","g">>), url |-> Str(<<"h",".","o","r","g","/","3">>), source |-> "hqporner", description |-> Str(<<>>)],
       [title |-> Str(<<"P","i">>), url |-> Str(<<"h",".","o","r","g","/","4">>), source |-> "hqporner", description |-> Str(<<>>)] >>

\* the frames a scraper function can return: the first n records of the site
SiteFrames(name) ==
    {FrameOf(SubSeq(SiteRecords(name), 1, n)) : n \in 1..MaxSiteRows}
        \cup {DataFrame(TextColumns, <<>>)}

RECURSIVE ConcatRows(_)
ConcatRows(frames) ==
    IF frames = <<>> THEN <<>> ELSE frames[1].rows \o ConcatRows(Tail(frames))

\* pd.concat(frames, ignore_index=True) of frames with the same columns
Concat(frames) ==
    LET rows == ConcatRows(frames)
    IN  DataFrame(frames[1].columns,
            [i \in 1..Len(rows) |-> [rows[i] EXCEPT !.idx = i - 1]])

\* the list scraped_results after the loop: the non-empty frames returned
ScrapedResults(lg) ==
    LET Kept(e) == e.kind = "returned" /\ ~IsEmpty(e.frame)
        kept == SelectSeq(lg, Kept)
    IN  [i \in 1..Len(kept) |-> kept[i].frame]

\* the return statement of scrape_all_sites
CombineResults(lg) ==
    IF Len(ScrapedResults(lg)) > 0 THEN Concat(ScrapedResults(lg))
    ELSE DataFrame(TextColumns, <<>>)

\* str.strip()
Whitespace == {" ", "\t", "\n"}
RECURSIVE LStrip(_)
LStrip(str) ==
    IF str # <<>> /\ str[1] \in Whitespace THEN LStrip(Tail(str)) ELSE str
RECURSIVE RStrip(_)
RStrip(str) ==
    IF str # <<>> /\ str[Len(str)] \in Whitespace
    THEN RStrip(SubSeq(str, 1, Len(str) - 1)) ELSE str
Strip(str) == RStrip(LStrip(str))

NoQuery == [given |-> FALSE]
Query(q) == [given |-> TRUE, text |-> q]

\* mutant: only a missing --query counts as no query, an empty one is used
Falsy_NoneOnly(q) == ~q.given

\* `not query` for the --query argument
Falsy(q) == ~q.given \/ q.text = <<>>

\* sys.exit(code): nothing more runs
Exit(code) ==
    /\ mpc' = "exited"
    /\ exit_code' = code

\* main, from the argument parsing to the query prompt or the first scraper call
MainStart ==
    /\ mpc = "start"
    /\ IF ~file.exists
       THEN /\ Exit("1")
            /\ UNCHANGED <<bookmarks, vectorizer, user_profile, build_outcome, query>>
       ELSE LET bm == FrameOf(file.records)
                r == BuildUserProfile(bm)
            IN  /\ bookmarks' = bm
                /\ IF IsEmpty(bm)
                   THEN /\ Exit("1")
                        /\ UNCHANGED <<vectorizer, user_profile, build_outcome, query>>
                   ELSE /\ build_outcome' =
                               IF r.kind = "raised" THEN Raised(r.error) ELSE Returned("pair")
                        /\ vectorizer' = r.vectorizer
                        /\ user_profile' = r.profile
                        /\ IF r.kind = "raised" \/ ~r.vectorizer.fitted \/ ~r.profile.present
                           THEN Exit("1") /\ UNCHANGED query
                           ELSE IF Falsy(args.query)
                           THEN mpc' = "prompt" /\ UNCHANGED <<query, exit_code>>
                           ELSE /\ mpc' = "scraping"
                                /\ query' = args.query
                                /\ UNCHANGED exit_code
    /\ UNCHANGED <<args, file, scrapers, site_log, scrape_outcome, printed, candidates, recs, rpc,
                   interrupted>>
    /\ UNCHANGED <<fetchVars, configVars>>

\* input("Enter a search query for new videos: ") returns `line`
PromptAnswer(line) ==
    /\ mpc = "prompt"
    /\ IF Strip(line) = <<>>
       THEN Exit("1") /\ UNCHANGED query
       ELSE /\ mpc' = "scraping"
            /\ query' = Query(Strip(line))
            /\ UNCHANGED exit_code
    /\ UNCHANGED <<args, file, scrapers, site_log, scrape_outcome, printed, interrupted>>
    /\ UNCHANGED <<fetchVars, rankVars, configVars>>

\* input(...) raises KeyboardInterrupt or EOFError
PromptInterrupted ==
    /\ mpc = "prompt"
    /\ Exit("0")
    /\ interrupted' = "prompt"
    /\ UNCHANGED <<args, file, scrapers, site_log, scrape_outcome, query, printed>>
    /\ UNCHANGED <<fetchVars, rankVars, configVars>>

\* mutant: the loop of scrape_all_sites has no except branch, the error of a
\* site ends scrape_all_sites and main reports it
ScrapeSite_Propagating(kind, frame) ==
    LET i == Len(site_log) + 1
        entry == [site |-> scrapers[i], max_results |-> ScraperLimit[scrapers[i]],
                  kind |-> kind, frame |-> frame]
        lg == Append(site_log, entry)
    IN  /\ mpc = "scraping"
        /\ kind = "returned" => frame \in SiteFrames(scrapers[i])
        /\ site_log' = lg
        /\ IF kind = "raised"
           THEN /\ scrape_outcome' = Raised("site error")
                /\ Exit("1")
           ELSE IF i = Len(scrapers)
           THEN /\ scrape_outcome' = Returned(CombineResults(lg))
                /\ mpc' = "scraped"
                /\ UNCHANGED exit_code
           ELSE UNCHANGED <<scrape_outcome, mpc, exit_code>>
        /\ UNCHANGED <<args, file, scrapers, query, printed, interrupted>>
        /\ UNCHANGED <<fetchVars, rankVars, configVars>>

\* one turn of the loop of scrape_all_sites: the scraper function of the next
\* entry returns `frame` (kind "returned") or raises (kind "raised"); after the
\* last entry scrape_all_sites returns the combined frame
ScrapeSite(kind, frame) ==
    LET i == Len(site_log) + 1
        entry == [site |-> scrapers[i], max_results |-> ScraperLimit[scrapers[i]],
                  kind |-> kind, frame |-> frame]
        lg == Append(site_log, entry)
    IN  /\ mpc = "scraping"
        /\ kind = "returned" => frame \in SiteFrames(scrapers[i])
        /\ site_log' = lg
        /\ IF i = Len(scrapers)
           THEN /\ scrape_outcome' = Returned(CombineResults(lg))
                /\ mpc' = "scraped"
           ELSE UNCHANGED <<scrape_outcome, mpc>>
        /\ UNCHANGED <<args, file, scrapers, query, printed, exit_code, interrupted>>
        /\ UNCHANGED <<fetchVars, rankVars, configVars>>

\* mutant: the example data is used whenever --no-fallback is not given
UseFallback_Always(scraped, no_fallback) == ~no_fallback

\* `scraped_candidates.empty and not args.no_fallback`
UseFallback(scraped, no_fallback) == IsEmpty(scraped) /\ ~no_fallback

\* main after scrape_all_sites returned: fallback, ranking, printing
MainRank ==
    /\ mpc = "scraped"
    /\ LET scraped == scrape_outcome.value
       IN  IF UseFallback(scraped, args.no_fallback)
              \/ ~IsEmpty(scraped)
           THEN LET scraped_candidates ==
                        IF UseFallback(scraped, args.no_fallback)
                        THEN GetFallbackData ELSE scraped
                    r == RecommendVideos(scraped_candidates, vectorizer, user_profile,
                                         args.max_recommendations)
                IN  /\ recs' = Append(recs, [top_n |-> args.max_recommendations,
                                             before |-> scraped_candidates,
                                             outcome |-> r.outcome])
                    /\ candidates' = r.candidates
                    /\ IF r.outcome.kind = "raised"
                       THEN Exit("1") /\ UNCHANGED printed
                       ELSE /\ printed' = IF IsEmpty(r.outcome.value)
                                          THEN "no recommendations" ELSE "list"
                            /\ Exit("0")
           ELSE /\ Exit("1")
                /\ UNCHANGED <<recs, candidates, printed>>
    /\ UNCHANGED <<args, file, scrapers, site_log, scrape_outcome, query, interrupted>>
    /\ UNCHANGED <<rpc, bookmarks, vectorizer, user_profile, build_outcome>>
    /\ UNCHANGED <<fetchVars, configVars>>

\* the exception classes that do not derive from Exception
BaseOnly == {"KeyboardInterrupt", "CancelledError", "SystemExit"}

\* mutant: every handler is a bare `except:`
CaughtBy_Bare(classes, exc) == TRUE

\* an `except <classes>` clause catches exc
CaughtBy(classes, exc) ==
    exc \in classes \/ ("Exception" \in classes /\ exc \notin BaseOnly)

\* the except clauses an interrupt passes on its way out
ParseExcept == {"FileNotFoundError", "Exception"}
RunFlowExcept == {"Exception"}
FetchExcept == {"Exception"}
ScrapeAllSitesExcept == {"Exception"}
RecommendExcept == {"Exception"}
MainInterruptExcept == {"KeyboardInterrupt"}
MainExcept == {"Exception"}

\* the handlers of main's try block; an exception neither clause catches ends
\* the interpreter with a traceback and status 1
MainExitFor(exc) ==
    IF CaughtBy(MainInterruptExcept, exc) THEN "0"
    ELSE IF CaughtBy(MainExcept, exc) THEN "1"
    ELSE "1"

\* what a coroutine run by asyncio.run sees of the user interrupt: the
\* KeyboardInterrupt itself, or the cancellation of the main task; asyncio.run
\* raises KeyboardInterrupt to its caller in both cases
InterruptSeen == {"KeyboardInterrupt", "CancelledError"}

\* the user interrupt arrives while the bookmarks file is read
StartInterrupted ==
    /\ mpc = "start"
    /\ file.exists
    /\ interrupted' = "start"
    /\ IF CaughtBy(ParseExcept, "KeyboardInterrupt")
       THEN \* parse_bookmarks_from_file returns pd.DataFrame()
            /\ bookmarks' = BareFrame
            /\ Exit("1")
       ELSE /\ Exit(MainExitFor("KeyboardInterrupt"))
            /\ UNCHANGED bookmarks
    /\ UNCHANGED <<args, file, scrapers, site_log, scrape_outcome, query, printed>>
    /\ UNCHANGED <<rpc, vectorizer, user_profile, build_outcome, candidates, recs>>
    /\ UNCHANGED <<fetchVars, configVars>>

\* the user interrupt arrives while a scraper function waits (the pipeline
\* call or a backoff sleep of fetch): the coroutine sees `seen`; if a handler
\* of _run_flow or fetch caught it the call would go on and return no rows; if
\* the handler of scrape_all_sites caught the KeyboardInterrupt of asyncio.run
\* the site would be skipped; otherwise it reaches the handlers of main
ScrapeInterrupted(seen) ==
    LET i == Len(site_log) + 1
        swallowed == CaughtBy(RunFlowExcept, seen) \/ CaughtBy(FetchExcept, seen)
        skipped == ~swallowed /\ CaughtBy(ScrapeAllSitesExcept, "KeyboardInterrupt")
        kind == IF swallowed THEN "returned" ELSE IF skipped THEN "raised" ELSE "interrupted"
        entry == [site |-> scrapers[i], max_results |-> ScraperLimit[scrapers[i]],
                  kind |-> kind,
                  frame |-> IF swallowed THEN DataFrame(TextColumns, <<>>) ELSE BareFrame]
        lg == Append(site_log, entry)
    IN  /\ mpc = "scraping"
        /\ interrupted' = "scraping"
        /\ site_log' = lg
        /\ IF kind = "interrupted"
           THEN /\ scrape_outcome' = Raised("KeyboardInterrupt")
                /\ Exit(MainExitFor("KeyboardInterrupt"))
           ELSE IF i = Len(scrapers)
           THEN /\ scrape_outcome' = Returned(CombineResults(lg))
                /\ mpc' = "scraped"
                /\ UNCHANGED exit_code
           ELSE UNCHANGED <<scrape_outcome, mpc, exit_code>>
        /\ UNCHANGED <<args, file, scrapers, query, printed>>
        /\ UNCHANGED <<fetchVars, rankVars, configVars>>

\* the user interrupt arrives while recommend_videos runs
RankInterrupted ==
    /\ mpc = "scraped"
    /\ LET scraped == scrape_outcome.value
           scraped_candidates ==
               IF UseFallback(scraped, args.no_fallback) THEN GetFallbackData ELSE scraped
       IN  /\ UseFallback(scraped, args.no_fallback) \/ ~IsEmpty(scraped)
           /\ interrupted' = "ranking"
           /\ IF CaughtBy(RecommendExcept, "KeyboardInterrupt")
              THEN \* recommend_videos prints the error and returns pd.DataFrame()
                   /\ recs' = Append(recs, [top_n |-> args.max_recommendations,
                                            before |-> scraped_candidates,
                                            outcome |-> Returned(BareFrame)])
                   /\ printed' = "no recommendations"
                   /\ Exit("0")
              ELSE /\ Exit(MainExitFor("KeyboardInterrupt"))
                   /\ UNCHANGED <<recs, printed>>
    /\ UNCHANGED <<args, file, scrapers, site_log, scrape_outcome, query, candidates>>
    /\ UNCHANGED <<rpc, bookmarks, vectorizer, user_profile, build_outcome>>
    /\ UNCHANGED <<fetchVars, configVars>>

\* the command lines and bookmark files of a run
Queries == {NoQuery, Query(<<>>), Query(<<"p","i","c","o">>)}
Lines == {<<>>, <<" ">>, <<" ","c","a","t"," ">>}

CliInit ==
    /\ mpc = "start"
    /\ args \in [query : Queries, no_fallback : BOOLEAN, max_recommendations : 0..MaxTopN]
    /\ file \in [exists : {TRUE}, records : SeqsUpTo(BookmarkPool, MaxBookmarks)]
                    \cup {[exists |-> FALSE, records |-> <<>>]}
    /\ scrapers \in ScraperLists
    /\ site_log = <<>>
    /\ scrape_outcome = NoOutcome
    /\ query = NoQuery
    /\ printed = "nothing"
    /\ exit_code = "none"
    /\ interrupted = "no"

\* main while another part of the program is looked at
CliIdle ==
    /\ mpc = "off"
    /\ args = [query |-> NoQuery, no_fallback |-> FALSE, max_recommendations |-> 0]
    /\ file = [exists |-> FALSE, records |-> <<>>]
    /\ scrapers = <<>>
    /\ site_log = <<>>
    /\ scrape_outcome = NoOutcome
    /\ query = NoQuery
    /\ printed = "nothing"
    /\ exit_code = "none"
    /\ interrupted = "no"

----------------------------------------------------------------------------
(* crawl4ai_settings.py: get_crawl4ai_config and os.environ *)

\* CRAWL4AI_DEFAULTS, all keys
Crawl4aiDefaults ==
    [max_concurrent |-> 2, timeout |-> 20, fallback_delay |-> R(2, 1)] @@ DefaultSettings

EnvNames ==
    {"CRAWL4AI_USER_AGENT",
     "CRAWL4AI_MAX_CONCURRENT",
     "CRAWL4AI_DOWNLOAD_DELAY",
     "CRAWL4AI_RETRY_TIMES",
     "CRAWL4AI_TIMEOUT",
     "CRAWL4AI_FALLBACK_ENABLED",
     "CRAWL4AI_FALLBACK_DELAY",
     "CRAWL4AI_RETRY_DELAY_MULTIPLIER",
     "CRAWL4AI_MAX_RETRY_DELAY",
     "CRAWL4AI_BACKOFF_STRATEGY"}

Unset == [set |-> FALSE]
SetTo(s) == [set |-> TRUE, s |-> s]

\* `if os.getenv(NAME):` a variable that is set to a non-empty string
Truthy(v) == v.set /\ v.s # <<>>

DigitChars == <<"0", "1", "2", "3", "4", "5", "6", "7", "8", "9">>
DigitValue(c) == (CHOOSE n \in 1..Len(DigitChars) : DigitChars[n] = c) - 1

RECURSIVE DecimalValue(_)
DecimalValue(ds) ==
    IF ds = <<>> THEN 0
    ELSE 10 * DecimalValue(SubSeq(ds, 1, Len(ds) - 1)) + DigitValue(ds[Len(ds)])

AllDigits(s) == s # <<>> /\ \A i \in 1..Len(s) : s[i] \in Digits

Unsigned(t) == IF t # <<>> /\ t[1] \in {"+", "-"} THEN Tail(t) ELSE t
SignOf(t) == IF t # <<>> /\ t[1] = "-" THEN 0 - 1 ELSE 1

ValueError == "ValueError"

\* int(s) for a str of spaces, signs, digits, letters and dots: surrounding
\* whitespace is dropped, then an optional sign and decimal digits
PyInt(s) ==
    LET t == Strip(s)
    IN  IF AllDigits(Unsigned(t))
        THEN [ok |-> TRUE, v |-> SignOf(t) * DecimalValue(Unsigned(t))]
        ELSE [ok |-> FALSE, error |-> ValueError]

RECURSIVE PowerOfTen(_)
PowerOfTen(k) == IF k = 0 THEN 1 ELSE 10 * PowerOfTen(k - 1)

\* where character c first occurs in s, 0 if it does not
IndexOf(s, c) ==
    IF \E i \in 1..Len(s) : s[i] = c
    THEN CHOOSE i \in 1..Len(s) : s[i] = c /\ \A j \in 1..(i - 1) : s[j] # c
    ELSE 0

\* float(s) for such a str: nan, inf and infinity in any case, or digits with an
\* optional fraction and an optional exponent; nan is R(0, 0) and the
\* infinities are R(1, 0) and R(-1, 0)
PyFloat(s) ==
    LET t == Strip(s)
        sign == SignOf(t)
        u == Lower(Unsigned(t))
        e == IndexOf(u, "e")
        mant == IF e = 0 THEN u ELSE SubSeq(u, 1, e - 1)
        expo == IF e = 0 THEN <<"0">> ELSE SubSeq(u, e + 1, Len(u))
        dot == IndexOf(mant, ".")
        whole == IF dot = 0 THEN mant ELSE SubSeq(mant, 1, dot - 1)
        frac == IF dot = 0 THEN <<>> ELSE SubSeq(mant, dot + 1, Len(mant))
        wellFormed ==
            /\ whole # <<>> \/ frac # <<>>
            /\ whole = <<>> \/ AllDigits(whole)
            /\ frac = <<>> \/ AllDigits(frac)
            /\ AllDigits(Unsigned(expo))
        x == SignOf(expo) * DecimalValue(Unsigned(expo))
        digits == DecimalValue(whole \o frac)
        shift == x - Len(frac)
    IN  IF u = <<"n", "a", "n">> THEN [ok |-> TRUE, v |-> R(0, 0)]
        ELSE IF u \in {<<"i", "n", "f">>, <<"i", "n", "f", "i", "n", "i", "t", "y">>}
        THEN [ok |-> TRUE, v |-> R(sign, 0)]
        ELSE IF wellFormed
        THEN [ok |-> TRUE,
              v |-> IF shift >= 0 THEN R(sign * digits * PowerOfTen(shift), 1)
                    ELSE R(sign * digits, PowerOfTen(0 - shift))]
        ELSE [ok |-> FALSE, error |-> ValueError]

\* mutant: the conversion is not inside a try block
Override_Unguarded(name, default, parsed) ==
    IF ~Truthy(env[name]) THEN [ok |-> TRUE, v |-> default]
    ELSE IF parsed.ok THEN [ok |-> TRUE, v |-> parsed.v]
    ELSE [ok |-> FALSE, error |-> parsed.error]

\* one `if os.getenv(NAME): try: config[key] = <parse> except ValueError: pass`
Override(name, default, parsed) ==
    IF ~Truthy(env[name]) THEN [ok |-> TRUE, v |-> default]
    ELSE IF parsed.ok THEN [ok |-> TRUE, v |-> parsed.v]
    ELSE IF CaughtBy({"ValueError"}, parsed.error) THEN [ok |-> TRUE, v |-> default]
    ELSE [ok |-> FALSE, error |-> parsed.error]

\* the names of the strategies, from their characters
StrategyOf(chars) ==
    IF chars = <<"e","x","p","o","n","e","n","t","i","a","l">> THEN "exponential"
    ELSE IF chars = <<"l","i","n","e","a","r">> THEN "linear"
    ELSE "unknown"

\* the text of a variable, empty when it is not set
TextOfEnv(name) == IF env[name].set THEN env[name].s ELSE <<>>

\* get_crawl4ai_config()
\* mutant: only 'true' and 'false' are taken, any other word keeps the default
FallbackEnabledOf_KnownWords(value) ==
    IF Lower(value) = <<"t", "r", "u", "e">> THEN TRUE
    ELSE IF Lower(value) = <<"f", "a", "l", "s", "e">> THEN FALSE
    ELSE Crawl4aiDefaults.fallback_enabled

\* os.getenv("CRAWL4AI_FALLBACK_ENABLED").lower() == "true"
FallbackEnabledOf(value) == Lower(value) = <<"t", "r", "u", "e">>

GetCrawl4aiConfigResult ==
    LET d == Crawl4aiDefaults
        max_concurrent == Override("CRAWL4AI_MAX_CONCURRENT", d.max_concurrent,
                                   PyInt(TextOfEnv("CRAWL4AI_MAX_CONCURRENT")))
        download_delay == Override("CRAWL4AI_DOWNLOAD_DELAY", d.download_delay,
                                   PyFloat(TextOfEnv("CRAWL4AI_DOWNLOAD_DELAY")))
        retry_times == Override("CRAWL4AI_RETRY_TIMES", d.retry_times,
                                PyInt(TextOfEnv("CRAWL4AI_RETRY_TIMES")))
        timeout == Override("CRAWL4AI_TIMEOUT", d.timeout,
                            PyInt(TextOfEnv("CRAWL4AI_TIMEOUT")))
        fallback_delay == Override("CRAWL4AI_FALLBACK_DELAY", d.fallback_delay,
                                   PyFloat(TextOfEnv("CRAWL4AI_FALLBACK_DELAY")))
        retry_delay_multiplier ==
            Override("CRAWL4AI_RETRY_DELAY_MULTIPLIER", d.retry_delay_multiplier,
                     PyFloat(TextOfEnv("CRAWL4AI_RETRY_DELAY_MULTIPLIER")))
        max_retry_delay == Override("CRAWL4AI_MAX_RETRY_DELAY", d.max_retry_delay,
                                    PyFloat(TextOfEnv("CRAWL4AI_MAX_RETRY_DELAY")))
        strategy == Lower(TextOfEnv("CRAWL4AI_BACKOFF_STRATEGY"))
        steps == <<max_concurrent, download_delay, retry_times, timeout, fallback_delay,
                   retry_delay_multiplier, max_retry_delay>>
    IN  IF \E i \in 1..Len(steps) : ~steps[i].ok
        THEN Raised(steps[CHOOSE i \in 1..Len(steps) : ~steps[i].ok].error)
        ELSE Returned(
          [user_agent |-> IF Truthy(env["CRAWL4AI_USER_AGENT"])
                          THEN [overridden |-> TRUE, s |-> env["CRAWL4AI_USER_AGENT"].s]
                          ELSE [overridden |-> FALSE, s |-> <<>>],
           max_concurrent |-> max_concurrent.v,
           download_delay |-> download_delay.v,
           retry_times |-> retry_times.v,
           timeout |-> timeout.v,
           fallback_enabled |->
               IF Truthy(env["CRAWL4AI_FALLBACK_ENABLED"])
               THEN FallbackEnabledOf(env["CRAWL4AI_FALLBACK_ENABLED"].s)
               ELSE d.fallback_enabled,
           fallback_delay |-> fallback_delay.v,
           retry_delay_multiplier |-> retry_delay_multiplier.v,
           max_retry_delay |-> max_retry_delay.v,
           backoff_strategy |->
               IF Truthy(env["CRAWL4AI_BACKOFF_STRATEGY"])
                  /\ StrategyOf(strategy) \in {"exponential", "linear"}
               THEN StrategyOf(strategy)
               ELSE d.backoff_strategy,
           enable_fallback_user_agents |-> d.enable_fallback_user_agents,
           fallback_user_agents |-> d.fallback_user_agents])

\* the strings the variables are set to
EnvValues ==
    {<<"5">>,
     <<" ","7"," ">>,
     <<"-","1">>,
     <<"2",".","5">>,
     <<"1","e","1">>,
     <<"a","b","c">>,
     <<"n","a","n">>,
     <<"L","i","n","e","a","r">>,
     <<"l","i","n","e","a","r">>,
     <<"T","r","u","e">>,
     <<>>}

\* the strings CRAWL4AI_FALLBACK_ENABLED is set to
FallbackValues ==
    {<<"t","r","u","e">>, <<"T","R","U","E">>, <<"t","R","u","E">>,
     <<"1">>, <<"y","e","s">>, <<"t","u","r","e">>, <<"f","a","l","s","e">>,
     <<" ","t","r","u","e">>, <<>>}

\* the variables set next to it
FallbackEnvNames ==
    {"CRAWL4AI_FALLBACK_ENABLED", "CRAWL4AI_RETRY_TIMES", "CRAWL4AI_BACKOFF_STRATEGY"}

\* os.environ[name] = value, before the configuration is read
Setenv(name, value) ==
    /\ config_outcome = NoOutcome
    /\ ~env[name].set
    /\ Cardinality({n \in EnvNames : env[n].set}) < MaxOverrides
    /\ env' = [env EXCEPT ![name] = SetTo(value)]
    /\ UNCHANGED config_outcome
    /\ UNCHANGED <<fetchVars, rankVars, cliVars>>

\* config = get_crawl4ai_config()
GetCrawl4aiConfig ==
    /\ config_outcome = NoOutcome
    /\ config_outcome' = GetCrawl4aiConfigResult
    /\ UNCHANGED env
    /\ UNCHANGED <<fetchVars, rankVars, cliVars>>

\* no CRAWL4AI_* variable is set and the configuration has not been read
ConfigInit ==
    /\ env = [n \in EnvNames |-> Unset]
    /\ config_outcome = NoOutcome

----------------------------------------------------------------------------
(* Crawl4aiVideoScraper() without a settings argument: the settings are what
   get_crawl4ai_config() returns under the environment of the process *)

\* before the constructor has run
FacadeUnbuilt(pageSet) ==
    /\ settings = NoKeys
    /\ site_pipelines = <<>>
    /\ fpc = "unbuilt"
    /\ call = [site |-> <<>>, max_results |-> 0]
    /\ flow_def = NoFlowDef
    /\ attempt = 0
    /\ last_exception = None
    /\ log = <<>>
    /\ sleeps = <<>>
    /\ flow_outcome = NoOutcome
    /\ fetch_outcome = NoOutcome
    /\ ncalls = 0
    /\ pages = pageSet

\* the configuration dict as the facade reads it
SettingsOf(config) ==
    [config EXCEPT !.user_agent = IF @.overridden THEN @.s ELSE DefaultUserAgent]

\* self.settings = settings or get_crawl4ai_config(), then the site registry
ConstructDefault ==
    /\ fpc = "unbuilt"
    /\ config_outcome = NoOutcome
    /\ config_outcome' = GetCrawl4aiConfigResult
    /\ IF config_outcome'.kind = "returned"
       THEN /\ settings' = SettingsOf(config_outcome'.value)
            /\ site_pipelines' = SiteKeys
            /\ fpc' = "idle"
       ELSE /\ fpc' = "failed"
            /\ UNCHANGED <<settings, site_pipelines>>
    /\ UNCHANGED <<call, flow_def, attempt, last_exception, log, sleeps, flow_outcome,
                   fetch_outcome, ncalls, pages, env>>
    /\ UNCHANGED <<rankVars, cliVars>>

\* the variables that reach the retry loop
RetryEnvNames == {"CRAWL4AI_RETRY_TIMES", "CRAWL4AI_BACKOFF_STRATEGY"}
RetryEnvValues == {<<"0">>, <<"-","1">>, <<"2">>, <<"a","b","c">>, <<"l","i","n","e","a","r">>}

----------------------------------------------------------------------------
(* parse_bookmarks_from_file: the <a> elements of the file, in document order;
   text is link.text, href the attribute when the element has one *)

NoTitle == <<"N","o"," ","T","i","t","l","e">>
UnknownSource == <<"U","n","k","n","o","w","n"," ","S","o","u","r","c","e">>

\* url.split("/")[0]
SplitFirst(s, sep) ==
    IF IndexOf(s, sep) = 0 THEN s ELSE SubSeq(s, 1, IndexOf(s, sep) - 1)

\* the dict appended for one link
AnchorRecord(link) ==
    LET title == IF link.text # <<>> THEN Strip(link.text) ELSE NoTitle
        url == Strip(IF link.href.set THEN link.href.s ELSE <<>>)
        domain == IF url # <<>> THEN SplitFirst(url, "/") ELSE UnknownSource
    IN  [title |-> Str(title), url |-> Str(url), source |-> domain,
         description |-> Str(<<>>)]

ParseBookmarksFromFile(f) ==
    IF ~f.exists THEN BareFrame
    ELSE FrameOf([i \in 1..Len(f.anchors) |-> AnchorRecord(f.anchors[i])])

Anchors ==
    { [text |-> <<"P","i"," ","P","i","c","o">>, href |-> SetTo(<<"x",".","i","o","/","p","i","c","o">>)],
      [text |-> <<" ","T","h","e"," ","C","a","t"," ">>, href |-> SetTo(<<" ","h","t","t","p","s",":","/","/","c","a","t",".","t","v","/","1"," ">>)],
      [text |-> <<>>, href |-> SetTo(<<"x",".","i","o">>)],
      [text |-> <<"D","o","g">>, href |-> Unset],
      [text |-> <<" ">>, href |-> SetTo(<<"#">>)] }

\* before the bookmark file is read
ParseInit ==
    /\ rpc = "file"
    /\ file \in [exists : {TRUE}, anchors : SeqsUpTo(Anchors, MaxAnchors)]
                    \cup {[exists |-> FALSE, anchors |-> <<>>]}
    /\ bookmarks = BareFrame
    /\ vectorizer = NoVectorizer
    /\ user_profile = NoProfile
    /\ build_outcome = NoOutcome
    /\ candidates = BareFrame
    /\ recs = <<>>
    /\ mpc = "off"
    /\ args = [query |-> NoQuery, no_fallback |-> FALSE, max_recommendations |-> 0]
    /\ scrapers = <<>>
    /\ site_log = <<>>
    /\ scrape_outcome = NoOutcome
    /\ query = NoQuery
    /\ printed = "nothing"
    /\ exit_code = "none"
    /\ interrupted = "no"

\* bookmarks = parse_bookmarks_from_file(path)
ParseBookmarks ==
    /\ rpc = "file"
    /\ rpc' = "start"
    /\ bookmarks' = ParseBookmarksFromFile(file)
    /\ UNCHANGED <<vectorizer, user_profile, build_outcome, candidates, recs>>
    /\ UNCHANGED <<fetchVars, cliVars, configVars>>

----------------------------------------------------------------------------
(* Specifications *)

\* the facade while another part of the program is looked at
FetchIdle == FacadeInit({DefaultSettings}, {})

\* one facade instance and the fetch calls made on it
InitFetch == FacadeInit(BackoffSettings, PlainPages) /\ RankIdle /\ CliIdle /\ ConfigInit

NextFetch ==
    \/ \E s \in SiteInputs, m \in 0..MaxResults : FetchCall(s, m)
    \/ \E vs \in pages : PipelineReturns(Results(vs))
    \/ PipelineReturns(NoResults)
    \/ \E e \in Errors : PipelineRaises(e)
    \/ SleepReturns
    \/ FetchReturn

SpecFetch == InitFetch /\ [][NextFetch]_vars

\* calls on a facade whose pipeline may hand back entries that are not dicts
InitFetchMalformed ==
    FacadeInit(BackoffSettings, MalformedPages) /\ RankIdle /\ CliIdle /\ ConfigInit

SpecFetchMalformed == InitFetchMalformed /\ [][NextFetch]_vars

\* one run of profile building and ranking
InitRank == RankInit /\ FetchIdle /\ CliIdle /\ ConfigInit

NextRank ==
    \/ BuildProfile
    \/ \E c \in SeqsUpTo(CandidatePool, MaxCandidates) : ObtainCandidates(c)
    \/ \E k \in 0..MaxTopN : Recommend(k)

SpecRank == InitRank /\ [][NextRank]_vars

\* a run in which equal scores may come back in any order the sort gives
NextRankTies ==
    \/ BuildProfile
    \/ \E c \in SeqsUpTo(CandidatePool, MaxCandidates) : ObtainCandidates(c)
    \/ \E k \in 0..MaxTopN : RecommendAnyTieOrder(k)

SpecRankTies == InitRank /\ [][NextRankTies]_vars

\* candidate records whose title is a str or missing
BatchPool == {r \in CandidatePool : r.title.t # "int"}

\* several recommend_videos calls on different candidate frames
NextRankMany ==
    \/ BuildProfile
    \/ \E c \in SeqsUpTo(BatchPool, MaxBatch) : ObtainCandidates(c)
    \/ \E c \in SeqsUpTo(BatchPool, MaxBatch) : ObtainMoreCandidates(c)
    \/ \E k \in 0..MaxTopN : Recommend(k)

SpecRankMany == InitRank /\ [][NextRankMany]_vars

\* one run of the embedding variant
InitEmbed == EmbedInit /\ FetchIdle /\ CliIdle /\ ConfigInit

NextEmbed ==
    \/ BuildEmbeddingProfile
    \/ \E c \in SeqsUpTo(EmbedCandidatePool, MaxBatch) : ObtainCandidates(c)
    \/ \E k \in 0..MaxTopN, n \in 0..MaxBatch :
           \E scores \in [1..n -> EmbedScores] : RecommendWithEmbeddings(k, scores)

SpecEmbed == InitEmbed /\ [][NextEmbed]_vars

\* the end-to-end example: the same steps on the example records
InitExample == ExampleInit /\ FetchIdle /\ CliIdle /\ ConfigInit

NextExample ==
    \/ BuildProfile
    \/ \E c \in SeqsUpTo({PicoCandidate, CatCandidate}, MaxCandidates) : ObtainCandidates(c)
    \/ \E k \in 0..MaxTopN : Recommend(k)

SpecExample == InitExample /\ [][NextExample]_vars

\* one run of cli.main
InitCli == CliInit /\ FetchIdle /\ RankIdle /\ ConfigInit

NextCli ==
    \/ MainStart
    \/ \E line \in Lines : PromptAnswer(line)
    \/ PromptInterrupted
    \/ \E f \in UNION {SiteFrames(name) : name \in ScraperNames} : ScrapeSite("returned", f)
    \/ ScrapeSite("raised", BareFrame)
    \/ MainRank

SpecCli == InitCli /\ [][NextCli]_vars

\* one run of cli.main during which the user may interrupt
NextCliInterrupt ==
    \/ NextCli
    \/ StartInterrupted
    \/ \E seen \in InterruptSeen : ScrapeInterrupted(seen)
    \/ RankInterrupted

SpecCliInterrupt == InitCli /\ [][NextCliInterrupt]_vars

\* Either fetch calls on a facade, or one run of cli.main, in which every
\* awaited pipeline call and backoff sleep returns and every scraper function
\* called by scrape_all_sites returns or raises.
InitTerminate ==
    \/ InitFetch
    \/ /\ InitCli
       /\ Len(file.records) = 1
       /\ args.max_recommendations = MaxTopN

AwaitedPipeline ==
    \/ \E vs \in pages : PipelineReturns(Results(vs))
    \/ PipelineReturns(NoResults)
    \/ \E e \in Errors : PipelineRaises(e)

ScraperFunction ==
    \/ \E f \in UNION {SiteFrames(name) : name \in ScraperNames} : ScrapeSite("returned", f)
    \/ ScrapeSite("raised", BareFrame)

NextTerminate ==
    \/ mpc = "off" /\ NextFetch
    \/ NextCli

SpecTerminate ==
    /\ InitTerminate
    /\ [][NextTerminate]_vars
    /\ WF_vars(AwaitedPipeline)
    /\ WF_vars(SleepReturns)
    /\ WF_vars(ScraperFunction)

\* the environment is set up and the configuration is read
InitConfig == ConfigInit /\ FetchIdle /\ RankIdle /\ CliIdle

NextConfig ==
    \/ \E name \in EnvNames, value \in EnvValues : Setenv(name, value)
    \/ GetCrawl4aiConfig

SpecConfig == InitConfig /\ [][NextConfig]_vars

\* CRAWL4AI_FALLBACK_ENABLED and its neighbours are set, then the
\* configuration is read
NextFallbackFlag ==
    \/ \E name \in FallbackEnvNames, value \in FallbackValues : Setenv(name, value)
    \/ GetCrawl4aiConfig

SpecFallbackFlag == InitConfig /\ [][NextFallbackFlag]_vars

\* the records of a run: the bookmark file is parsed, then sites are fetched
InitRecords == ParseInit /\ FacadeInit({DefaultSettings}, AllPages) /\ ConfigInit

NextRecords ==
    \/ ParseBookmarks
    \/ rpc = "start" /\ NextFetch

SpecRecords == InitRecords /\ [][NextRecords]_vars

\* facades that retry often enough for the delays of attempts 0, 1 and 2
LongRetrySettings == {[s EXCEPT !.retry_times = ExampleRetryTimes] : s \in BackoffSettings}

InitBackoff == FacadeInit(LongRetrySettings, PlainPages) /\ RankIdle /\ CliIdle /\ ConfigInit

SpecBackoff == InitBackoff /\ [][NextFetch]_vars

\* a facade with the default settings on sites whose pages repeat urls
InitFetchLong == FacadeInit({DefaultSettings}, LongPages) /\ RankIdle /\ CliIdle /\ ConfigInit

SpecFetchLong == InitFetchLong /\ [][NextFetch]_vars

\* the environment is set, the default facade is built, fetch is called on it
InitEnvFacade == ConfigInit /\ FacadeUnbuilt(PlainPages) /\ RankIdle /\ CliIdle

NextEnvFacade ==
    \/ \E name \in RetryEnvNames, value \in RetryEnvValues :
           fpc = "unbuilt" /\ Setenv(name, value)
    \/ ConstructDefault
    \/ NextFetch

SpecEnvFacade == InitEnvFacade /\ [][NextEnvFacade]_vars

\* one facade built with user-agent settings and the fetch calls made on it
InitFetchUA == FacadeInit(UserAgentSettings, PlainPages) /\ RankIdle /\ CliIdle /\ ConfigInit

NextFetchUA ==
    \/ \E s \in SiteInputs, m \in 0..MaxResults : FetchCall(s, m)
    \/ PipelineStep
    \/ SleepReturns
    \/ FetchReturn

SpecFetchUA == InitFetchUA /\ [][NextFetchUA]_vars

----------------------------------------------------------------------------
(* Properties of fetch and the retry loop *)

FetchDone == fpc = "done"
SupportedCall == Lower(call.site) \in SeqRange(SiteKeys)
AllRaised == Len(log) > 0 /\ \A i \in 1..Len(log) : log[i].out = "raised"
RetryTimes == Get(settings, "retry_times", 3)

\* C1 as stated: when every pipeline attempt of a fetch on a supported site
\* raises, fetch makes exactly retry_times attempts and then raises the error
\* of the last attempt to its caller.
C1_FetchRaisesLastError ==
    (FetchDone /\ SupportedCall /\ AllRaised) =>
        /\ Len(log) = RetryTimes
        /\ fetch_outcome.kind = "raised"
        /\ fetch_outcome.error = log[Len(log)].err

\* C1 amended: when every pipeline attempt of a fetch on a supported site
\* raises, exactly retry_times attempts are made, _run_flow raises the error of
\* the last attempt, and fetch catches it and returns the empty record set.
C1_ExhaustedFetchReturnsEmpty ==
    (FetchDone /\ SupportedCall /\ AllRaised) =>
        /\ Len(log) = RetryTimes
        /\ flow_outcome = Raised(log[Len(log)].err)
        /\ fetch_outcome = Returned(EmptyFrame)

C1_Witness ==
    /\ FetchDone /\ SupportedCall /\ AllRaised
    /\ Len(log) = 3
    /\ log[2].err # log[3].err
    /\ flow_outcome.kind = "raised"

\* the row _convert_to_dataframe makes of one scraped item
RowOf(video, source) ==
    [title |-> IF "title" \in DOMAIN video THEN video.title ELSE "No Title",
     url |-> IF "url" \in DOMAIN video THEN video.url ELSE "",
     source |-> source,
     description |-> IF "description" \in DOMAIN video THEN video.description ELSE ""]

DistinctUrls(rows) ==
    \A i, j \in 1..Len(rows) : i # j => rows[i].url # rows[j].url

MultiplierAboveOne ==
    LET m == Get(settings, "retry_delay_multiplier", R(2, 1)) IN m.n > m.d

\* attempts 1..k-1 raised and attempt k returned records
SucceededAfterRaises ==
    /\ FetchDone
    /\ Len(log) >= 1
    /\ log[Len(log)].out = "ok"
    /\ \A i \in 1..(Len(log) - 1) : log[i].out = "raised"

SupportedInputs ==
    { <<"e","p","o","r","n","e","r">>, <<"E","p","o","r","n","e","r">>, <<"X","N","X","X">> }

\* C8: a fetch for a site that is no supported identifier (letter case aside)
\* raises the unsupported-site error listing the supported identifiers, with no
\* pipeline built, no attempt made and no sleep; a supported site never gets it.
C8_UnsupportedSiteFailsFast ==
    FetchDone =>
        IF call.site \in SupportedInputs
        THEN fetch_outcome.kind = "returned" /\ flow_def.built
        ELSE /\ fetch_outcome =
                    Raised([type |-> "ValueError", site |-> call.site, supported |-> SiteKeys])
             /\ flow_def = NoFlowDef
             /\ log = <<>>
             /\ sleeps = <<>>
             /\ flow_outcome = NoOutcome

C8_Witness ==
    /\ FetchDone
    /\ call.site = <<"x","n","x","x"," ">>
    /\ fetch_outcome.kind = "raised"
    /\ ncalls = 1

----------------------------------------------------------------------------
(* Properties of build_user_profile and recommend_videos *)

\* the candidates frame as call c left it
After(c) == IF c < Len(recs) THEN recs[c + 1].before ELSE candidates

\* call c was given a non-empty frame of records with str title and url, a
\* fitted vectorizer and a profile
Scorable(c) ==
    /\ ~IsEmpty(recs[c].before)
    /\ WellFormed(recs[c].before)
    /\ vectorizer.fitted
    /\ user_profile.present

\* C5: for a non-empty set of candidate records, a fitted vectorizer, a profile
\* and top_n = k >= 0, recommend_videos returns at most k and at most
\* len(candidates) rows, all of them when k >= len(candidates); every returned
\* row is one input candidate, none twice; the rows are in non-increasing score
\* order and no omitted candidate scores higher than a returned one.
C5_TopNSortedSubset ==
    \A c \in 1..Len(recs) :
        Scorable(c) =>
            /\ recs[c].outcome.kind = "returned"
            /\ LET given == recs[c].before.rows
                   k == recs[c].top_n
                   out == recs[c].outcome.value.rows
                   after == After(c).rows
                   n == Len(given)
               IN  /\ Len(out) <= k
                   /\ Len(out) <= n
                   /\ k >= n => Len(out) = n
                   /\ \A i \in 1..Len(out) :
                          /\ out[i].idx \in 0..(n - 1)
                          /\ out[i].title = given[out[i].idx + 1].title
                          /\ out[i].url = given[out[i].idx + 1].url
                          /\ out[i].source = given[out[i].idx + 1].source
                          /\ out[i].relevance_score = after[out[i].idx + 1].relevance_score
                   /\ \A i, j \in 1..Len(out) : i # j => out[i].idx # out[j].idx
                   /\ \A i, j \in 1..Len(out) :
                          i < j => out[i].relevance_score >= out[j].relevance_score
                   /\ \A m \in 1..n :
                          (\A i \in 1..Len(out) : out[i].idx # m - 1) =>
                              \A i \in 1..Len(out) :
                                  after[m].relevance_score <= out[i].relevance_score

C5_Witness ==
    /\ Len(recs) >= 1
    /\ Scorable(1)
    /\ Len(recs[1].before.rows) = 3
    /\ recs[1].top_n = 2
    /\ Len(recs[1].outcome.value.rows) = 2
    /\ recs[1].outcome.value.rows[1].idx = 2
    /\ recs[1].outcome.value.rows[1].relevance_score
           > recs[1].outcome.value.rows[2].relevance_score

BuildDone == rpc \in {"built", "failed", "ready"}

\* C6 as stated: for a non-empty bookmark set build_user_profile returns a
\* fitted vectorizer and a profile vector whose dimension is the vocabulary
\* size and is not zero; for an empty set it returns (None, None); it never
\* raises.
C6_BuildReturnsProfile ==
    BuildDone =>
        /\ build_outcome.kind = "returned"
        /\ IF IsEmpty(bookmarks)
           THEN ~vectorizer.fitted /\ ~user_profile.present
           ELSE /\ vectorizer.fitted
                /\ user_profile.present
                /\ DOMAIN user_profile.vector = vectorizer.vocabulary
                /\ Cardinality(vectorizer.vocabulary) > 0

\* C7 as stated: recommend_videos never raises; it returns an empty frame when
\* the candidates are empty, the vectorizer or the profile is None, or the
\* candidate text cannot be transformed (values that are no strings).
C7_RecommendNeverRaises ==
    \A c \in 1..Len(recs) :
        /\ recs[c].outcome.kind = "returned"
        /\ ~Scorable(c) => IsEmpty(recs[c].outcome.value)

\* C9: two recommend_videos calls with the same vectorizer, profile and top_n,
\* the second one on the candidates frame as the first one left it, return the
\* same rows in the same order with the same scores.
C9_RankingDeterministic ==
    \A c, d \in 1..Len(recs) :
        (c < d /\ recs[c].top_n = recs[d].top_n /\ Scorable(c)) =>
            /\ recs[d].outcome = recs[c].outcome
            /\ After(d) = After(c)

C9_Witness ==
    /\ Len(recs) = 2
    /\ Scorable(1)
    /\ recs[1].top_n = recs[2].top_n
    /\ "relevance_score" \in DOMAIN recs[2].before.rows[1]
    /\ Len(recs[2].outcome.value.rows) >= 2
    /\ recs[2].outcome.value.rows[1].relevance_score > 0

\* the terms of a candidate row that the fitted vocabulary knows
KnownTerms(row) == SeqRange(Analyze(TextOf(row).s)) \cap vectorizer.vocabulary

\* C10: a candidate whose text shares no term with the fitted vocabulary is
\* transformed to the zero vector and scores 0, without an error, and never
\* scores higher than a candidate that shares a term with a non-zero profile
\* component.
C10_NoOverlapScoresZero ==
    \A c \in 1..Len(recs) :
        Scorable(c) =>
            /\ recs[c].outcome.kind = "returned"
            /\ LET given == recs[c].before.rows
                   after == After(c).rows
               IN  \A i \in 1..Len(given) :
                       KnownTerms(given[i]) = {} =>
                           /\ \A t \in vectorizer.vocabulary :
                                  TransformDoc(vectorizer, TextOf(given[i]))[t] = 0
                           /\ after[i].relevance_score = 0
                           /\ \A j \in 1..Len(given) :
                                  (\E t \in KnownTerms(given[j]) : user_profile.vector[t] > 0)
                                      => after[j].relevance_score >= after[i].relevance_score

C10_Witness ==
    /\ Len(recs) >= 1
    /\ Scorable(1)
    /\ Len(recs[1].before.rows) = 2
    /\ KnownTerms(recs[1].before.rows[1]) = {}
    /\ KnownTerms(recs[1].before.rows[2]) # {}
    /\ Len(recs[1].outcome.value.rows) = 2
    /\ recs[1].outcome.value.rows[1].idx = 1
    /\ recs[1].outcome.value.rows[2].relevance_score = 0


----------------------------------------------------------------------------
(* Properties of scrape_all_sites and of the fallback of main *)

\* the records of a frame, without the row labels
RecordsOf(df) ==
    [i \in 1..Len(df.rows) |->
        [title |-> df.rows[i].title, url |-> df.rows[i].url,
         source |-> df.rows[i].source, description |-> df.rows[i].description]]

\* the records the sites returned, in call order
RECURSIVE ReturnedRecords(_)
ReturnedRecords(lg) ==
    IF lg = <<>> THEN <<>>
    ELSE (IF lg[1].kind = "returned" THEN RecordsOf(lg[1].frame) ELSE <<>>)
            \o ReturnedRecords(Tail(lg))

\* C3: scrape_all_sites calls the scraper of each site once, in list order,
\* never propagates an error a site raised, and returns exactly the
\* concatenation, in site order, of the records of the sites that did not
\* raise (a site that returned nothing contributes nothing).
C3_ScrapeAllSitesConcatenates ==
    /\ scrape_outcome.kind # "raised"
    /\ Len(site_log) <= Len(scrapers)
    /\ \A i \in 1..Len(site_log) : site_log[i].site = scrapers[i]
    /\ scrape_outcome.kind = "returned" =>
          /\ Len(site_log) = Len(scrapers)
          /\ RecordsOf(scrape_outcome.value) = ReturnedRecords(site_log)

\* one site returned 3 records, another raised, and the result is those 3
C3_Witness ==
    /\ scrape_outcome.kind = "returned"
    /\ Len(site_log) = 2
    /\ site_log[1].kind = "returned"
    /\ Len(site_log[1].frame.rows) = 3
    /\ site_log[2].kind = "raised"
    /\ RecordsOf(scrape_outcome.value) = RecordsOf(site_log[1].frame)
    /\ Len(scrape_outcome.value.rows) = 3

\* scrape_all_sites returned and main has ended
RanAfterScraping == mpc = "exited" /\ scrape_outcome.kind = "returned"

\* no site produced a record
NothingScraped ==
    \A i \in 1..Len(site_log) :
        site_log[i].kind = "raised" \/ Len(site_log[i].frame.rows) = 0

\* C4: when no site produced a record, main ranks exactly the 3 example
\* records if --no-fallback is absent and exits with status 1 without ranking
\* if it is present; when a site produced a record, the example records are
\* never substituted: the ranker is given the scraped records.
C4_FallbackOnlyWhenNothingScraped ==
    RanAfterScraping =>
        IF NothingScraped
        THEN IF args.no_fallback
             THEN exit_code = "1" /\ recs = <<>>
             ELSE /\ Len(recs) = 1
                  /\ recs[1].before = GetFallbackData
                  /\ Len(recs[1].before.rows) = 3
                  /\ \A i \in 1..3 : recs[1].before.rows[i].source = "example"
        ELSE /\ Len(recs) = 1
             /\ RecordsOf(recs[1].before) = ReturnedRecords(site_log)
             /\ \A i \in 1..Len(recs[1].before.rows) :
                    recs[1].before.rows[i].source # "example"

\* every site failed or was empty, --no-fallback is absent, and the three
\* example records were ranked
C4_Witness ==
    /\ RanAfterScraping
    /\ NothingScraped
    /\ Len(site_log) = 2
    /\ site_log[1].kind = "raised"
    /\ site_log[2].kind = "returned"
    /\ ~args.no_fallback
    /\ Len(recs) = 1
    /\ Len(recs[1].before.rows) = 3
    /\ recs[1].outcome.kind = "returned"
    /\ exit_code = "0"

----------------------------------------------------------------------------
(* The end-to-end example *)

\* call c is the example: the profile was built from the single example
\* bookmark and the candidates are the Pico and the cat-videos record
ExampleCall(c) ==
    /\ RecordsOf(bookmarks) = <<PicoBookmark>>
    /\ build_outcome.kind = "returned"
    /\ c = 1
    /\ RecordsOf(recs[c].before) \in {<<PicoCandidate, CatCandidate>>, <<CatCandidate, PicoCandidate>>}
    /\ recs[c].top_n = 2

\* C11: with the single bookmark 'Raspberry Pi Pico tutorial' and the
\* candidates 'Pico C++ Projects' and 'Cat videos', in either order,
\* recommend_videos with top_n = 2 returns both candidates, the Pico candidate
\* first, with a strictly higher score than the cat-videos candidate.
C11_PicoAboveCat ==
    \A c \in 1..Len(recs) :
        ExampleCall(c) =>
            /\ recs[c].outcome.kind = "returned"
            /\ LET out == recs[c].outcome.value.rows
               IN  /\ Len(out) = 2
                   /\ out[1].title = PicoCandidate.title
                   /\ out[2].title = CatCandidate.title
                   /\ out[1].relevance_score > out[2].relevance_score

\* the example was ranked with the cat-videos record given first, and the
\* Pico record came out first
C11_Witness ==
    /\ Len(recs) >= 1
    /\ ExampleCall(1)
    /\ RecordsOf(recs[1].before) = <<CatCandidate, PicoCandidate>>
    /\ recs[1].outcome.kind = "returned"
    /\ recs[1].outcome.value.rows[1].url = PicoCandidate.url
    /\ recs[1].outcome.value.rows[2].relevance_score > 0

----------------------------------------------------------------------------
(* Exit status of cli.main *)

\* none of the conditions that end main with status 1 occurred
CompletedNormally ==
    /\ file.exists
    /\ ~IsEmpty(bookmarks)
    /\ build_outcome.kind = "returned"
    /\ vectorizer.fitted
    /\ query.given
    /\ scrape_outcome.kind = "returned"
    /\ ~(IsEmpty(scrape_outcome.value) /\ args.no_fallback)
    /\ Len(recs) = 1
    /\ recs[1].outcome.kind = "returned"

\* C12: every run of main ends with status 0 or 1: 0 whenever the user
\* interrupt arrived (before or at the query prompt, while scraping or while
\* ranking), otherwise 1 when the bookmarks file is missing or yields no
\* bookmark, no profile is built, the query typed at the prompt is empty,
\* nothing was scraped with --no-fallback, or ranking raised, and 0 with the
\* recommendations or the "no recommendations" message printed otherwise.
C12_ExitStatusZeroOrOne ==
    mpc = "exited" =>
        /\ exit_code \in {"0", "1"}
        /\ interrupted # "no" => exit_code = "0"
        /\ interrupted = "no" =>
              IF CompletedNormally
              THEN exit_code = "0" /\ printed # "nothing"
              ELSE exit_code = "1" /\ printed = "nothing"

\* an interrupt arrived while the second scraper waited, and main exited 0
C12_Witness ==
    /\ mpc = "exited"
    /\ interrupted = "scraping"
    /\ Len(site_log) = 2
    /\ site_log[1].kind = "returned"
    /\ site_log[2].kind = "interrupted"
    /\ args.no_fallback
    /\ exit_code = "0"

----------------------------------------------------------------------------
(* Properties of get_crawl4ai_config *)

\* what Python's int() and float() make of the strings of EnvValues: the
\* strings they accept, with the value
IntLiterals ==
    { [s |-> <<"5">>, v |-> 5], [s |-> <<" ","7"," ">>, v |-> 7], [s |-> <<"-","1">>, v |-> 0 - 1] }

FloatLiterals ==
    { [s |-> <<"5">>, v |-> R(5, 1)], [s |-> <<" ","7"," ">>, v |-> R(7, 1)], [s |-> <<"-","1">>, v |-> R(0 - 1, 1)],
      [s |-> <<"2",".","5">>, v |-> R(5, 2)], [s |-> <<"1","e","1">>, v |-> R(10, 1)] }

IntKeys ==
    { [name |-> "CRAWL4AI_MAX_CONCURRENT", key |-> "max_concurrent"],
      [name |-> "CRAWL4AI_RETRY_TIMES", key |-> "retry_times"],
      [name |-> "CRAWL4AI_TIMEOUT", key |-> "timeout"] }

FloatKeys ==
    { [name |-> "CRAWL4AI_DOWNLOAD_DELAY", key |-> "download_delay"],
      [name |-> "CRAWL4AI_FALLBACK_DELAY", key |-> "fallback_delay"],
      [name |-> "CRAWL4AI_RETRY_DELAY_MULTIPLIER", key |-> "retry_delay_multiplier"],
      [name |-> "CRAWL4AI_MAX_RETRY_DELAY", key |-> "max_retry_delay"] }

\* the value of the variable is one of the literals
IsLiteral(name, literals) == env[name].set /\ \E l \in literals : l.s = env[name].s
LiteralValue(name, literals) == (CHOOSE l \in literals : l.s = env[name].s).v

IsNan(name) == env[name].set /\ env[name].s = <<"n","a","n">>

\* C13: get_crawl4ai_config never raises; a numeric key whose variable holds
\* a string that int() or float() rejects keeps its default, a strategy other
\* than exponential or linear (in any case) keeps the default strategy, and the
\* variables that hold valid values are applied whatever the others hold.
C13_InvalidOverridesKeepDefaults ==
    /\ config_outcome.kind # "raised"
    /\ config_outcome.kind = "returned" =>
          LET c == config_outcome.value
              d == Crawl4aiDefaults
          IN  /\ \A k \in IntKeys :
                     c[k.key] = IF IsLiteral(k.name, IntLiterals)
                                THEN LiteralValue(k.name, IntLiterals)
                                ELSE d[k.key]
              /\ \A k \in FloatKeys :
                     IF IsNan(k.name) THEN c[k.key].d = 0 /\ c[k.key].n = 0
                     ELSE /\ c[k.key].d > 0
                          /\ REq(c[k.key], IF IsLiteral(k.name, FloatLiterals)
                                           THEN LiteralValue(k.name, FloatLiterals)
                                           ELSE d[k.key])
              /\ c.backoff_strategy =
                     IF env["CRAWL4AI_BACKOFF_STRATEGY"].set
                        /\ env["CRAWL4AI_BACKOFF_STRATEGY"].s \in {<<"L","i","n","e","a","r">>, <<"l","i","n","e","a","r">>}
                     THEN "linear" ELSE d.backoff_strategy

\* retry_times is set to abc and download_delay to 2.5: the configuration has
\* the default retry_times and the download_delay 2.5
C13_Witness ==
    /\ config_outcome.kind = "returned"
    /\ env["CRAWL4AI_RETRY_TIMES"] = SetTo(<<"a","b","c">>)
    /\ env["CRAWL4AI_DOWNLOAD_DELAY"] = SetTo(<<"2",".","5">>)
    /\ config_outcome.value.retry_times = 3
    /\ REq(config_outcome.value.download_delay, R(5, 2))

----------------------------------------------------------------------------
(* Properties of the records the parser and the facade produce *)

HasText(a) == Strip(a.text) # <<>>
HasHref(a) == a.href.set /\ Strip(a.href.s) # <<>>
Parsed == rpc = "start"
FetchSucceeded ==
    /\ FetchDone /\ fetch_outcome.kind = "returned"
    /\ Len(log) > 0 /\ log[Len(log)].out = "ok"

\* C14 as stated: every record of parse_bookmarks_from_file and every candidate
\* record of _convert_to_dataframe has a non-empty title and a non-empty url;
\* an anchor or scraped item lacking a url or a title is dropped, never emitted
\* with an empty or placeholder value.
C14_MalformedEntriesDropped ==
    /\ Parsed =>
         /\ Len(bookmarks.rows) =
                Len(SelectSeq(file.anchors, LAMBDA a : HasText(a) /\ HasHref(a)))
         /\ \A i \in 1..Len(bookmarks.rows) :
                /\ bookmarks.rows[i].title.s \notin {<<>>, NoTitle}
                /\ bookmarks.rows[i].url.s # <<>>
    /\ FetchSucceeded =>
         \A r \in 1..Len(fetch_outcome.value.rows) :
             /\ fetch_outcome.value.rows[r].title \notin {"", "No Title"}
             /\ fetch_outcome.value.rows[r].url # ""

\* C14 amended: no anchor and no scraped item is dropped for lacking a title or
\* a url. Every anchor of a readable file yields one record, in order: its
\* title is the stripped text, "No Title" for an anchor without text, and its
\* url the stripped href, empty without one; so title and url are non-empty
\* whenever the anchor has a non-blank text and href. Every record fetch
\* returns is the normalization of one scraped item, a missing title emitted as
\* "No Title" and a missing url as "", and with max_results >= 1 the first
\* item is always emitted.
C14_EntriesKeptWithPlaceholders ==
    /\ (Parsed /\ file.exists) =>
         /\ Len(bookmarks.rows) = Len(file.anchors)
         /\ \A i \in 1..Len(file.anchors) :
                LET a == file.anchors[i]
                    r == bookmarks.rows[i]
                IN  /\ r.title.s = IF a.text = <<>> THEN NoTitle ELSE Strip(a.text)
                    /\ r.url.s = IF a.href.set THEN Strip(a.href.s) ELSE <<>>
                    /\ HasText(a) => r.title.s # <<>>
                    /\ HasHref(a) => r.url.s # <<>>
    /\ FetchSucceeded =>
         LET videos == log[Len(log)].res.videos
             rows == fetch_outcome.value.rows
         IN  /\ \A r \in 1..Len(rows) :
                    \E i \in 1..Len(videos) : rows[r] = RowOf(videos[i], Lower(call.site))
             /\ call.max_results >= 1 =>
                    /\ Len(rows) >= 1
                    /\ rows[1] = RowOf(videos[1], Lower(call.site))

C14_Witness ==
    /\ Parsed
    /\ \E i \in 1..Len(bookmarks.rows) : bookmarks.rows[i].url.s = <<>>
    /\ \E i \in 1..Len(bookmarks.rows) : bookmarks.rows[i].title.s = NoTitle
    /\ FetchSucceeded
    /\ Len(fetch_outcome.value.rows) = 2
    /\ fetch_outcome.value.rows[1].url = ""
    /\ fetch_outcome.value.rows[2].title = "No Title"

----------------------------------------------------------------------------
(* Properties of the retry loop: sleeps, errors, success, user agents *)

\* the delay _run_flow computes after the attempt with loop index a
ComputedDelay(a) ==
    CalculateRetryDelay(a,
        Get(settings, "download_delay", R(1, 1)),
        Get(settings, "backoff_strategy", "exponential"),
        Get(settings, "retry_delay_multiplier", R(2, 1)),
        Get(settings, "max_retry_delay", R(10, 1)))

\* C15 as stated: within one fetch call attempts are strictly sequential, and
\* after every failed non-final attempt, whether the pipeline raised or
\* returned zero records, a backoff sleep with the computed delay completes
\* before the next attempt starts; no sleep follows the final attempt or a
\* successful attempt.
C15_BackoffBeforeEveryRetry ==
    /\ \A i \in 1..Len(log) :
           log[i].out = "pending" => (i = Len(log) /\ fpc = "crawl")
    /\ \A i \in 1..(Len(log) - 1) :
           \E k \in 1..Len(sleeps) :
               sleeps[k] = [after |-> i - 1, delay |-> ComputedDelay(i - 1)]
    /\ \A k \in 1..Len(sleeps) :
           /\ sleeps[k].after + 1 < RetryTimes
           /\ log[sleeps[k].after + 1].out # "ok"

\* _run_flow left its loop without returning
Exhausted == FetchDone /\ flow_outcome.kind = "raised"
RaisedAttempts == {i \in 1..Len(log) : log[i].out = "raised"}

\* C16: when the retry loop is exhausted it has made retry_times attempts and
\* raises the exception of the latest attempt that raised, also when later
\* attempts returned zero records; if no attempt raised it raises the generic
\* "All retry attempts failed with no results" error.
C16_ExhaustedRaisesLatestException ==
    Exhausted =>
        /\ Len(log) = (IF RetryTimes > 0 THEN RetryTimes ELSE 0)
        /\ \A i \in 1..Len(log) : log[i].out \in {"raised", "empty"}
        /\ flow_outcome.error =
               IF RaisedAttempts = {} THEN AllAttemptsFailed
               ELSE log[CHOOSE i \in RaisedAttempts : \A j \in RaisedAttempts : j <= i].err

C16_Witness ==
    /\ Exhausted
    /\ Len(log) = 3
    /\ log[1].out = "raised" /\ log[1].err = "ConnectionError"
    /\ log[2].out = "raised" /\ log[2].err = "TimeoutError"
    /\ log[3].out = "empty"
    /\ flow_outcome.error = "TimeoutError"

\* C17: _run_flow returns only the result of an attempt that holds at least one
\* video, and it is the result of the last attempt made; an attempt whose
\* result is None or holds no videos is counted as failed: the loop goes on to
\* the next attempt, or is exhausted and raises.
C17_SuccessNeedsARecord ==
    /\ flow_outcome.kind = "returned" =>
           /\ flow_outcome.value.kind = "dict"
           /\ Len(flow_outcome.value.videos) >= 1
           /\ Len(log) >= 1
           /\ log[Len(log)] = [ua |-> log[Len(log)].ua, out |-> "ok", err |-> None,
                               res |-> flow_outcome.value]
    /\ \A i \in 1..Len(log) :
           (log[i].out \in {"ok", "empty"}) =>
               IF log[i].res.kind = "dict" /\ Len(log[i].res.videos) >= 1
               THEN log[i].out = "ok"
               ELSE /\ log[i].out = "empty"
                    /\ i < Len(log) \/ Exhausted

C17_Witness ==
    /\ flow_outcome.kind = "returned"
    /\ Len(log) = 3
    /\ log[1].out = "empty" /\ log[1].res = NoResults
    /\ log[2].out = "empty" /\ log[2].res = Results(<<>>)
    /\ Len(flow_outcome.value.videos) = 2

Configured(key, default) == IF key \in DOMAIN settings THEN settings[key] ELSE default

\* C18: attempt index 0 uses the configured user_agent; attempt index n >= 1
\* uses fallback_user_agents[(n-1) mod len] when fallback_enabled and
\* enable_fallback_user_agents are on and the list is non-empty, and the
\* configured user_agent otherwise; the flow definition handed to the pipeline
\* carries that user agent.
C18_UserAgentRotation ==
    /\ \A i \in 1..Len(log) :
           LET n == i - 1
               list == Configured("fallback_user_agents", <<>>)
               rotating == /\ Configured("fallback_enabled", TRUE)
                           /\ Configured("enable_fallback_user_agents", TRUE)
                           /\ list # <<>>
           IN  /\ n = 0 => log[i].ua = Configured("user_agent", None)
               /\ (n >= 1 /\ rotating) => log[i].ua = list[((n - 1) % Len(list)) + 1]
               /\ (n >= 1 /\ ~rotating) => log[i].ua = Configured("user_agent", None)
    /\ fpc = "crawl" => flow_def.user_agent = log[Len(log)].ua

C18_Witness ==
    /\ FetchDone
    /\ "user_agent" \notin DOMAIN settings
    /\ Len(log) = 4
    /\ log[1].ua = None /\ log[1].err = UserAgentTypeError
    /\ log[2].ua = "Safari/Mac"
    /\ log[3].ua = "Firefox/Linux"
    /\ log[4].ua = "Safari/Mac" /\ log[4].out = "ok"

\* the values the claim names, as fractions of integers
ExponentialDelay(a, base, mult) == R(base.n * (mult.n ^ a), base.d * (mult.d ^ a))
LinearDelay(a, base, mult) == R(base.n * (mult.d + mult.n * a), base.d * mult.d)
Capped(delay, cap) == IF delay.n * cap.d <= cap.n * delay.d THEN delay ELSE cap

\* C19: the delay slept after attempt index a is
\* min(base_delay * multiplier^a, max_retry_delay) under the exponential
\* strategy and min(base_delay + base_delay * multiplier * a, max_retry_delay)
\* under the linear strategy; no delay exceeds max_retry_delay.
C19_DelayFormula ==
    \A k \in 1..Len(sleeps) :
        LET a == sleeps[k].after
            base == settings.download_delay
            mult == settings.retry_delay_multiplier
            cap == settings.max_retry_delay
            delay == sleeps[k].delay
        IN  /\ a >= 0
            /\ settings.backoff_strategy = "exponential" =>
                   REq(delay, Capped(ExponentialDelay(a, base, mult), cap))
            /\ settings.backoff_strategy = "linear" =>
                   REq(delay, Capped(LinearDelay(a, base, mult), cap))
            /\ RLe(delay, cap)

C19_Witness ==
    /\ Len(sleeps) = 3
    /\ settings.backoff_strategy = "exponential"
    /\ settings.retry_delay_multiplier = R(2, 1)
    /\ settings.max_retry_delay = R(3, 2)
    /\ REq(sleeps[1].delay, R(1, 1))
    /\ REq(sleeps[2].delay, R(3, 2))
    /\ REq(sleeps[3].delay, R(3, 2))

----------------------------------------------------------------------------
(* Properties of fetch's truncation and de-duplication *)

\* the rows of w[1..i] whose url no earlier row of w has
RECURSIVE FirstOfEachUrl(_, _)
FirstOfEachUrl(w, i) ==
    IF i = 0 THEN <<>>
    ELSE IF \E j \in 1..(i - 1) : w[j].url = w[i].url
         THEN FirstOfEachUrl(w, i - 1)
         ELSE Append(FirstOfEachUrl(w, i - 1), w[i])

\* C20: on success with max_results >= 0 fetch returns the first max_results
\* normalized records in pipeline order, less every record whose url an
\* earlier record of that window has: the urls are pairwise distinct, the
\* order is kept and the count is at most max_results.
C20_TruncateThenDedup ==
    FetchSucceeded =>
        LET videos == log[Len(log)].res.videos
            m == call.max_results
            all == [i \in 1..Len(videos) |-> RowOf(videos[i], Lower(call.site))]
            window == SubSeq(all, 1, IF m < Len(all) THEN m ELSE Len(all))
            rows == fetch_outcome.value.rows
        IN  /\ m >= 0
            /\ fetch_outcome.value.columns = FrameColumns
            /\ rows = FirstOfEachUrl(window, Len(window))
            /\ DistinctUrls(rows)
            /\ Len(rows) <= m

\* the count is below max_results although a record with a new url lies
\* beyond the window
C20_Witness ==
    /\ FetchSucceeded
    /\ call.max_results = 2
    /\ Len(log[Len(log)].res.videos) = 3
    /\ log[Len(log)].res.videos =
           <<[title |-> "t1", url |-> "u1"], [title |-> "t2", url |-> "u1"],
             [title |-> "t3", url |-> "u2", description |-> "d3"]>>
    /\ Len(fetch_outcome.value.rows) = 1
    /\ fetch_outcome.value.rows[1].title = "t1"

----------------------------------------------------------------------------
(* Properties of the ranker: ties, the fitted state, the caller's frame *)

\* call c scored its candidates and returned a selection of them
Scored(c) == Scorable(c) /\ recs[c].outcome.kind = "returned"

\* C21 as stated: among candidates with equal score the one earlier in the
\* input is selected first when the top_n cut falls inside the tie group, and
\* candidates with equal score appear in the result in their original
\* relative order.
C21_TiesKeepOriginalOrder ==
    \A c \in 1..Len(recs) :
        Scored(c) =>
            LET out == recs[c].outcome.value.rows
                all == After(c).rows
            IN  /\ \A i, j \in 1..Len(out) :
                       (i < j /\ out[i].relevance_score = out[j].relevance_score)
                           => out[i].idx < out[j].idx
                /\ \A i \in 1..Len(out) : \A a \in 1..Len(all) :
                       (all[a].relevance_score = out[i].relevance_score
                        /\ \A j \in 1..Len(out) : out[j].idx # all[a].idx)
                           => out[i].idx < all[a].idx

\* the rows call c returned with their scores
ScoredRows(c) == IF Scored(c) THEN SeqRange(recs[c].outcome.value.rows) ELSE {}

SameScores ==
    \A c, d \in 1..Len(recs) :
        \A x \in ScoredRows(c), y \in ScoredRows(d) :
            (x.title = y.title /\ x.url = y.url) => x.relevance_score = y.relevance_score

ProfileBuilt == rpc \in {"built", "ready"}

\* C22: once build_user_profile has returned them, the vectorizer (its
\* vocabulary and weights) and the profile vector are never changed by any
\* recommend_videos call, on whatever candidates, and a candidate text gets the
\* same score in every call.
C22_FittedStateReadOnly ==
    /\ []SameScores
    /\ [][ProfileBuilt => (vectorizer' = vectorizer /\ user_profile' = user_profile)]_vars

C22_Witness ==
    /\ Len(recs) = 2
    /\ Scored(1) /\ Scored(2)
    /\ recs[1].before # recs[2].before
    /\ Len(recs[1].before.rows) # Len(recs[2].before.rows)
    /\ \E x \in ScoredRows(1), y \in ScoredRows(2) :
           x.title = y.title /\ x.url = y.url /\ x.relevance_score > 0

----------------------------------------------------------------------------
(* Properties of a facade instance across fetch calls *)

\* a fetch call enters the retry loop
CallStarts == fpc = "idle" /\ fpc' = "crawl"

\* C23: every fetch call on a facade instance, whatever the earlier calls on it
\* did, starts at attempt 0 with no recorded error, no sleep and the configured
\* primary user agent, and no step of any call changes the settings object or
\* the site registry.
C23_RetryStateIsPerCall ==
    /\ [][settings' = settings /\ site_pipelines' = site_pipelines]_vars
    /\ [][CallStarts =>
            /\ attempt' = 0
            /\ last_exception' = None
            /\ sleeps' = <<>>
            /\ Len(log') = 1
            /\ log'[1].ua = Get(settings, "user_agent", None)
            /\ flow_def'.user_agent = Get(settings, "user_agent", None)]_vars

\* a second call on the instance has started
C23_Witness ==
    /\ ncalls = 1
    /\ fpc = "crawl"
    /\ attempt = 0
    /\ Len(log) = 1
    /\ settings.retry_times = 3
    /\ call.site = <<"X","N","X","X">>

----------------------------------------------------------------------------
(* Properties of the domain features of the embedding variant *)

\* the one-hot row of index k in a mapping of width n
OneHot(n, k) == [c \in 0..(n - 1) |-> IF c = k THEN 1 ELSE 0]
ZeroRow(n) == [c \in 0..(n - 1) |-> 0]

\* C24: the mapping built from the bookmarks sends their distinct domains
\* one-to-one onto 0..n-1; encoding candidates against it gives a known domain
\* the row with a single 1 at its index and a domain outside the mapping the
\* all-zero row, raises nothing and returns the mapping unchanged.
C24_DomainEncoding ==
    /\ (ProfileBuilt /\ user_profile.present) =>
           LET m == user_profile.mapping.index
               n == Cardinality(DOMAIN m)
           IN  /\ DOMAIN m = SeqRange(SourcesOf(bookmarks))
               /\ {m[d] : d \in DOMAIN m} = 0..(n - 1)
               /\ \A d, f \in DOMAIN m : d # f => m[d] # m[f]
    /\ \A c \in 1..Len(recs) :
           /\ recs[c].outcome.kind = "returned"
           /\ recs[c].encoded =>
                  LET m == user_profile.mapping.index
                      n == Cardinality(DOMAIN m)
                      sources == SourcesOf(recs[c].before)
                  IN  /\ recs[c].mapping = user_profile.mapping
                      /\ Len(recs[c].domain_vecs) = Len(sources)
                      /\ \A i \in 1..Len(sources) :
                             recs[c].domain_vecs[i] =
                                 IF sources[i] \in DOMAIN m
                                 THEN OneHot(n, m[sources[i]]) ELSE ZeroRow(n)

C24_Witness ==
    /\ Len(recs) = 1
    /\ recs[1].encoded
    /\ Cardinality(DOMAIN user_profile.mapping.index) = 2
    /\ UnknownDomain \in DOMAIN user_profile.mapping.index
    /\ Len(recs[1].domain_vecs) = 2
    /\ recs[1].domain_vecs[1] = ZeroRow(2)
    /\ recs[1].domain_vecs[2] = OneHot(2, 0)

\* C25 as stated: the retry_times the retry loop uses is an integer >= 1 for
\* every CRAWL4AI_RETRY_TIMES override and every settings object, so every
\* fetch on a supported site makes at least one pipeline attempt before it
\* reports exhaustion.
C25_AtLeastOneAttempt ==
    /\ fpc \notin {"unbuilt", "failed"} => RetryTimes >= 1
    /\ (FetchDone /\ SupportedCall) => Len(log) >= 1

\* the conditions main checks before the first scraper function is called
ReadyToScrape ==
    /\ ~IsEmpty(bookmarks)
    /\ vectorizer.fitted
    /\ user_profile.present
    /\ query.given
    /\ query.text # <<>>

\* C26: main runs its stages in the order load bookmarks, build profile,
\* obtain query, scrape sites, rank, print. No scraper function is called
\* unless a bookmark was loaded, build_user_profile returned a vectorizer and
\* a profile, and a non-empty query is known; recommend_videos is called at
\* most once, only after every entry of the scraper list was attempted, only
\* with a non-empty candidate set, and nothing is scraped or printed out of
\* turn.
C26_StagesInOrder ==
    /\ [](mpc = "scraping" \/ site_log # <<>> => ReadyToScrape)
    /\ [](Len(recs) <= 1)
    /\ [](recs # <<>> => /\ Len(site_log) = Len(scrapers)
                         /\ scrape_outcome.kind = "returned"
                         /\ ~IsEmpty(recs[1].before))
    /\ [](printed # "nothing" => recs # <<>>)
    /\ [][site_log' # site_log => recs = <<>> /\ recs' = <<>>]_vars
    /\ [][recs # <<>> => UNCHANGED <<bookmarks, vectorizer, user_profile, query,
                                     site_log, recs>>]_vars

\* a run that went through every stage: two sites were attempted, the first
\* raised, the second returned rows, and the list was printed
C26_Witness ==
    /\ mpc = "exited"
    /\ Len(scrapers) = 2
    /\ Len(site_log) = 2
    /\ site_log[1].kind = "raised"
    /\ Len(recs) = 1
    /\ printed = "list"

\* C27: for a supported site fetch hands no error of the pipeline, of the
\* exhausted retry loop or of the conversion to its caller: whenever _run_flow
\* raised or the results could not be converted, fetch returned a frame with
\* no rows and the columns title, url, source, description; and every other
\* outcome is a returned frame too.
C27_FetchReturnsEmptyOnFailure ==
    (FetchDone /\ SupportedCall) =>
        /\ fetch_outcome.kind = "returned"
        /\ fetch_outcome.value.columns = <<"title", "url", "source", "description">>
        /\ (flow_outcome.kind = "raised"
            \/ (flow_outcome.kind = "returned" /\ ~Normalizable(flow_outcome.value)))
           => fetch_outcome.value.rows = <<>>

\* a call in which the second attempt returned a list with an entry that is
\* not a dict, after the first attempt raised
C27_Witness ==
    /\ FetchDone /\ SupportedCall
    /\ Len(log) = 2
    /\ log[1].out = "raised"
    /\ flow_outcome.kind = "returned"
    /\ ~Normalizable(flow_outcome.value)
    /\ fetch_outcome.kind = "returned"

\* a call that used up its attempts, the last one raising
C27_WitnessExhausted ==
    /\ FetchDone /\ SupportedCall
    /\ Len(log) >= 2
    /\ flow_outcome.kind = "raised"
    /\ flow_outcome.error \in Errors
    /\ fetch_outcome.kind = "returned"

\* the number of times range(retry_times) lets the loop body run
LoopTurns == IF RetryTimes > 0 THEN RetryTimes ELSE 0

\* C28: every fetch call terminates. When every awaited pipeline call and
\* every backoff sleep returns, the retry loop makes at most retry_times
\* attempts and a call that waits for the pipeline or sleeps is eventually
\* over, _run_flow having returned results or raised; and the loop of
\* scrape_all_sites over its finite scraper list eventually ends, whether
\* the scraper functions return rows, return nothing or raise.
C28_FetchTerminates ==
    /\ [](Len(log) <= LoopTurns)
    /\ [](Len(site_log) <= Len(scrapers))
    /\ (fpc \in {"crawl", "sleep"}) ~>
           (FetchDone /\ flow_outcome.kind \in {"returned", "raised"})
    /\ (mpc = "scraping") ~>
           (mpc = "scraped" /\ Len(site_log) = Len(scrapers))

\* a call that ended after every one of three attempts raised
C28_Witness ==
    /\ FetchDone /\ SupportedCall
    /\ RetryTimes = 3
    /\ Len(log) = 3
    /\ Len(sleeps) = 2
    /\ flow_outcome.kind = "raised"

\* 'true' in any mix of upper and lower case
AnyCaseTrue ==
    {<<a, b, c, d>> : a \in {"t", "T"}, b \in {"r", "R"}, c \in {"u", "U"}, d \in {"e", "E"}}

\* C29: when CRAWL4AI_FALLBACK_ENABLED is set to a non-empty value,
\* get_crawl4ai_config sets fallback_enabled to true exactly when the value
\* is 'true' in any case; every other non-empty value ('1', 'yes', a typo)
\* gives false, not the default true; an unset or empty variable keeps the
\* default.
C29_FallbackFlagOnlyTrue ==
    config_outcome.kind = "returned" =>
        LET v == env["CRAWL4AI_FALLBACK_ENABLED"]
            flag == config_outcome.value.fallback_enabled
        IN  IF v.set /\ v.s # <<>>
            THEN flag = (v.s \in AnyCaseTrue)
            ELSE flag = Crawl4aiDefaults.fallback_enabled

\* the configuration was read with the variable set to 'yes': the flag is
\* off although the default is on
C29_Witness ==
    /\ config_outcome.kind = "returned"
    /\ env["CRAWL4AI_FALLBACK_ENABLED"] = SetTo(<<"y","e","s">>)
    /\ config_outcome.value.fallback_enabled = FALSE
    /\ Crawl4aiDefaults.fallback_enabled = TRUE

\* the configuration was read with the variable set to 'tRuE'
C29_WitnessMixedCase ==
    /\ config_outcome.kind = "returned"
    /\ env["CRAWL4AI_FALLBACK_ENABLED"] = SetTo(<<"t","R","u","E">>)
    /\ config_outcome.value.fallback_enabled = TRUE

\* call c returned through the first test of recommend_videos: the frame was
\* empty, or the vectorizer or the profile was None
Skipped(c) == IsEmpty(recs[c].before) \/ ~vectorizer.fitted \/ ~user_profile.present

\* C30: recommend_videos changes the caller's candidates frame only by
\* attaching the score. After a call that scored the candidates every input
\* candidate carries a relevance_score, the one its returned row carries and
\* by which the returned rows are ordered, while the title, url, source and
\* description of every candidate, and the order and number of candidates,
\* are as before; a call that returns because the frame is empty or the
\* vectorizer or profile is absent leaves the frame as it was.
C30_OnlyScoreColumnAdded ==
    \A c \in 1..Len(recs) :
        LET given == recs[c].before.rows
            after == After(c).rows
            out == recs[c].outcome.value.rows
        IN  /\ Scored(c) =>
                /\ Len(after) = Len(given)
                /\ After(c).columns = ScoredColumns
                /\ \A i \in 1..Len(given) :
                       /\ after[i].idx = given[i].idx
                       /\ after[i].title = given[i].title
                       /\ after[i].url = given[i].url
                       /\ after[i].source = given[i].source
                       /\ after[i].description = given[i].description
                       /\ "relevance_score" \in DOMAIN after[i]
                       /\ after[i].relevance_score =
                              Cosine(TransformDoc(vectorizer, TextOf(given[i])),
                                     user_profile.vector)
                /\ \A j \in 1..Len(out) :
                       \E i \in 1..Len(after) : out[j] = after[i]
            /\ Skipped(c) => After(c) = recs[c].before

\* three candidates without a score column were scored: the frame has the
\* column, two different scores in it, and the second candidate ranks first
C30_Witness ==
    /\ Len(recs) >= 1
    /\ Scored(1)
    /\ Len(recs[1].before.rows) = 3
    /\ recs[1].before.columns = TextColumns
    /\ "relevance_score" \notin DOMAIN recs[1].before.rows[1]
    /\ After(1).rows[1].relevance_score < After(1).rows[2].relevance_score
    /\ recs[1].top_n >= 1
    /\ recs[1].outcome.value.rows[1].idx = 1

\* a call with an absent profile on a non-empty frame left it alone
C30_WitnessSkipped ==
    /\ Len(recs) >= 1
    /\ ~IsEmpty(recs[1].before)
    /\ ~user_profile.present
    /\ After(1) = recs[1].before

====
